---- MODULE Spec2Model ----
(***************************************************************************)
(* Model of the AI JD service (apps/ai-jd): the candidate ranker           *)
(* (services/candidate_matcher.py), its data model (models/jd_models.py)   *)
(* the requirement extractor (services/jd_parser.py) and the HTTP boundary *)
(* in front of the ranker (main.py).                                       *)
(*                                                                         *)
(* Numbers.  Python floats are modelled as exact rationals:                *)
(*   - a skill level is an integer number of tenths (50 is 5.0);           *)
(*   - a weight component is an integer number of tenths (6 is 0.6);       *)
(*   - an eval_score is an integer number of thousandths (85126 is        *)
(*     85.126);                                                            *)
(*   - an unrounded score is a record [num, den] (num / den points);       *)
(*   - a rounded score, as stored in a Match, is an integer number of      *)
(*     hundredths (9500 is 95.0).                                          *)
(* Strings are sequences of one-character strings, so that lower-casing    *)
(* and the substring test are computed and not assumed.                    *)
(***************************************************************************)
EXTENDS Integers, Sequences, FiniteSets, TLC

VARIABLES
    via,              \* which entry point is exercised: "http", "service", "skill"
    pc,               \* position of the call
    request,          \* the MatchRequest (raw payload on the http path)
    job_skills,       \* the job_skills argument: a list of names, or None
    invoked,          \* TRUE once CandidateMatcherService.match_candidates has run
    status,           \* HTTP status of the answer (0 while there is none)
    response,         \* the MatchResponse, or None
    candidate_skills, \* skill path: the candidate_skills argument
    skill_score,      \* skill path: result of _calculate_skill_score, or None
    partial,          \* skill path: a call of _find_partial_skill_match, or None
    projects,         \* recency path: the projects argument
    recency_score,    \* recency path: result of _calculate_recency_score, or None
    collected,        \* reasons path: top_terms, skill_gaps, strengths before the cut
    reasons,          \* reasons path: the MatchReasons returned, or None
    jd_text,          \* parse path: request.job_description
    set_order,        \* parse path: iteration order of the vocabulary sets
    parsed,           \* parse path: the outcome of parse_jd, or None
    pending,          \* pool path: positions of the candidates not yet evaluated
    pool_matches,     \* pool path: the matches list, in the order of the appends
    jd_parser,        \* session path: the tables of the JDParserService instance
    history,          \* session path: the calls made on the service instances
    anomaly_request,  \* anomaly path: the AnomalyDetectionRequest
    anomaly_response, \* anomaly path: the AnomalyDetectionResponse, or None
    grade_request,    \* grading path: the CodeGradingRequest or DesignGradingRequest
    grade_analysis,   \* grading path: what the analysis of the content finds
    grade_response,   \* grading path: the GradingResponse, or None
    model,            \* lead path: LeadScoringService.model
    model_file,       \* lead path: what is at model_path
    lead_log          \* lead path: the calls made on the service and their outcomes

recencyVars == <<projects, recency_score>>
reasonVars == <<collected, reasons>>
jdVars == <<jd_text, set_order, parsed>>
poolVars == <<pending, pool_matches>>
sessionVars == <<jd_parser, history>>
anomalyVars == <<anomaly_request, anomaly_response>>
gradeVars == <<grade_request, grade_analysis, grade_response>>
leadVars == <<model, model_file, lead_log>>
extVars == <<poolVars, sessionVars, anomalyVars, gradeVars, leadVars>>

vars == <<via, pc, request, job_skills, invoked, status, response,
          candidate_skills, skill_score, partial, recencyVars, reasonVars, jdVars,
          extVars>>

None == "None"

-----------------------------------------------------------------------------
(* Bounds of the model *)

MaxCands == 3      \* longest candidate list of a request
MaxSkills == 2     \* largest skill map on the skill path
MaxReq == 2        \* longest required-skill list on the skill path
MaxProjects == 2   \* longest project list on the recency path
MaxReasonSkills == 3  \* most skills of a candidate on the reasons path
MaxReasonReq == 6     \* longest required-skill list on the reasons path
MaxPool == 3          \* longest candidate list on the pool path
MaxCalls == 3         \* most calls made on the service instances of a process
MaxPoints == 4        \* longest time series on the anomaly path
MaxLeadCalls == 4     \* most calls made on the LeadScoringService

-----------------------------------------------------------------------------
(* Strings *)

s_python == <<"p","y","t","h","o","n">>
s_Python == <<"P","y","t","h","o","n">>
s_py == <<"p","y">>
s_sql == <<"s","q","l">>
s_mysql == <<"m","y","s","q","l">>
s_postgresql == <<"p","o","s","t","g","r","e","s","q","l">>
s_db == <<"d","b">>
s_database == <<"d","a","t","a","b","a","s","e">>
s_ml == <<"m","l">>
s_ai == <<"a","i">>
s_machine_learning == <<"m","a","c","h","i","n","e"," ","l","e","a","r","n","i","n","g">>
s_artificial_intelligence ==
    <<"a","r","t","i","f","i","c","i","a","l"," ","i","n","t","e","l","l","i","g","e","n","c","e">>
s_javascript == <<"j","a","v","a","s","c","r","i","p","t">>
s_js == <<"j","s">>
s_node == <<"n","o","d","e">>
s_nodejs == <<"n","o","d","e","j","s">>
s_react == <<"r","e","a","c","t">>
s_reactjs == <<"r","e","a","c","t","j","s">>
s_angular == <<"a","n","g","u","l","a","r">>
s_angularjs == <<"a","n","g","u","l","a","r","j","s">>
s_communication == <<"c","o","m","m","u","n","i","c","a","t","i","o","n">>

\* str.lower() on one character
UpperCase ==
    {"A", "B", "C", "D", "E", "F", "G", "H", "I", "J", "K", "L", "M",
     "N", "O", "P", "Q", "R", "S", "T", "U", "V", "W", "X", "Y", "Z"}

LowerCaseOf ==
    ("A" :> "a") @@ ("B" :> "b") @@ ("C" :> "c") @@ ("D" :> "d") @@ ("E" :> "e") @@
    ("F" :> "f") @@ ("G" :> "g") @@ ("H" :> "h") @@ ("I" :> "i") @@ ("J" :> "j") @@
    ("K" :> "k") @@ ("L" :> "l") @@ ("M" :> "m") @@ ("N" :> "n") @@ ("O" :> "o") @@
    ("P" :> "p") @@ ("Q" :> "q") @@ ("R" :> "r") @@ ("S" :> "s") @@ ("T" :> "t") @@
    ("U" :> "u") @@ ("V" :> "v") @@ ("W" :> "w") @@ ("X" :> "x") @@ ("Y" :> "y") @@
    ("Z" :> "z")

LowerChar(c) == IF c \in UpperCase THEN LowerCaseOf[c] ELSE c

\* str.lower()
Lower(s) == [i \in 1..Len(s) |-> LowerChar(s[i])]

\* a in b, for strings
IsSubstring(a, b) ==
    \E i \in 0..(Len(b) - Len(a)) : SubSeq(b, i + 1, i + Len(a)) = a

-----------------------------------------------------------------------------
(* Dictionaries: a dict is a sequence of [name, level] entries with distinct *)
(* names, in insertion order.                                               *)

HasKey(d, k) == \E i \in 1..Len(d) : d[i].name = k

Get(d, k) == d[CHOOSE i \in 1..Len(d) : d[i].name = k].level

\* d[k] = v: the value is replaced in place, a new key goes last
Put(d, k, v) ==
    IF HasKey(d, k)
    THEN [i \in 1..Len(d) |-> IF d[i].name = k THEN [name |-> k, level |-> v] ELSE d[i]]
    ELSE Append(d, [name |-> k, level |-> v])

RECURSIVE LowerFrom(_, _, _)
LowerFrom(d, i, acc) ==
    IF i > Len(d) THEN acc
    ELSE LowerFrom(d, i + 1, Put(acc, Lower(d[i].name), d[i].level))

\* {k.lower(): v for k, v in candidate_skills.items()}
LowerKeys(d) == LowerFrom(d, 1, <<>>)

\* set(skill.lower() for skill in job_skills)
LowerSet(names) == {Lower(names[i]) : i \in 1..Len(names)}

RECURSIVE SumOver(_, _)
SumOver(S, f) ==
    IF S = {} THEN 0
    ELSE LET x == CHOOSE y \in S : TRUE IN f[x] + SumOver(S \ {x}, f)

-----------------------------------------------------------------------------
(* CandidateMatcherService: skill score *)

MaxSkillLevel == 5

\* skill_mappings, in declaration order
skill_mappings ==
    << [key |-> s_machine_learning,
        aliases |-> <<s_ml, s_ai, s_artificial_intelligence>>],
       [key |-> s_artificial_intelligence,
        aliases |-> <<s_ai, s_ml, s_machine_learning>>],
       [key |-> s_javascript, aliases |-> <<s_js, s_node, s_nodejs>>],
       [key |-> s_python, aliases |-> <<s_py>>],
       [key |-> s_database, aliases |-> <<s_db, s_sql, s_mysql, s_postgresql>>],
       [key |-> s_react, aliases |-> <<s_reactjs>>],
       [key |-> s_angular, aliases |-> <<s_angularjs>>] >>

\* skill_mappings[job_skill], the empty list when job_skill is no key
AliasesOf(job_skill) ==
    IF \E i \in 1..Len(skill_mappings) : skill_mappings[i].key = job_skill
    THEN skill_mappings[CHOOSE i \in 1..Len(skill_mappings) :
                            skill_mappings[i].key = job_skill].aliases
    ELSE <<>>

\* positions of the aliases that are keys of the candidate's skills
PresentAliases(aliases, cs) == {i \in 1..Len(aliases) : HasKey(cs, aliases[i])}

\* positions of the candidate's skills that contain job_skill or are contained in it
SubstringHits(job_skill, cs) ==
    {i \in 1..Len(cs) :
        IsSubstring(job_skill, cs[i].name) \/ IsSubstring(cs[i].name, job_skill)}

Least(S) == CHOOSE x \in S : \A y \in S : x <= y

\* The "best alias" variant of _find_partial_skill_match: the present alias of
\* the highest level instead of the first one in declaration order.
FindPartialSkillMatchBest(job_skill, cs) ==
    LET aliases == AliasesOf(job_skill)
        present == PresentAliases(aliases, cs)
        hits == SubstringHits(job_skill, cs)
    IN  IF present # {}
        THEN LET best == CHOOSE i \in present :
                             \A j \in present : Get(cs, aliases[j]) <= Get(cs, aliases[i])
             IN  Get(cs, aliases[best]) * 8
        ELSE IF hits # {} THEN cs[Least(hits)].level * 6
        ELSE 0

\* _find_partial_skill_match(job_skill, candidate_skills), in hundredths of a
\* level: level * 0.8 of the first alias present, else level * 0.6 of the first
\* skill in iteration order that contains job_skill or is contained in it, else 0.
FindPartialSkillMatch(job_skill, cs) ==
    LET aliases == AliasesOf(job_skill)
        present == PresentAliases(aliases, cs)
        hits == SubstringHits(job_skill, cs)
    IN  IF present # {} THEN Get(cs, aliases[Least(present)]) * 8
        ELSE IF hits # {} THEN cs[Least(hits)].level * 6
        ELSE 0

\* One job skill's addition to total_skill_score, in hundredths of a level.
Contribution(job_skill, cs) ==
    IF HasKey(cs, job_skill) THEN Get(cs, job_skill) * 10
    ELSE FindPartialSkillMatch(job_skill, cs)

Zero == [num |-> 0, den |-> 1]

RECURSIVE Gcd(_, _)
Gcd(a, b) == IF b = 0 THEN a ELSE Gcd(b, a % b)

\* the fraction x in lowest terms (the same number; den > 0)
Norm(x) ==
    LET g == Gcd(IF x.num < 0 THEN -x.num ELSE x.num, x.den)
    IN  [num |-> x.num \div g, den |-> x.den \div g]

\* _calculate_skill_score normalised by the directly matched skills only.
CalculateSkillScoreMatchedOnly(skills, required) ==
    LET job_skills_set == LowerSet(required)
        cs == LowerKeys(skills)
        matched_skills == {j \in job_skills_set : HasKey(cs, j)}
        total == SumOver(job_skills_set, [j \in job_skills_set |-> Contribution(j, cs)])
    IN  IF Len(required) = 0 \/ Len(skills) = 0 THEN Zero
        ELSE IF matched_skills = {} THEN Zero
        ELSE Norm([num |-> total * 100,
                   den |-> Cardinality(matched_skills) * MaxSkillLevel * 100])

\* The skill score taken over the entries of the required list, a repeated
\* entry counted each time.
CalculateSkillScorePerEntry(skills, required) ==
    LET lowered == [i \in 1..Len(required) |-> Lower(required[i])]
        cs == LowerKeys(skills)
        total == SumOver(1..Len(lowered), [i \in 1..Len(lowered) |-> Contribution(lowered[i], cs)])
    IN  IF Len(required) = 0 \/ Len(skills) = 0 THEN Zero
        ELSE IF \A i \in 1..Len(lowered) : ~HasKey(cs, lowered[i]) THEN Zero
        ELSE Norm([num |-> total * 100, den |-> Len(lowered) * MaxSkillLevel * 100])

\* _calculate_skill_score(candidate_skills, job_skills): the score in points,
\* as the fraction num / den.
CalculateSkillScore(skills, required) ==
    LET job_skills_set == LowerSet(required)
        cs == LowerKeys(skills)
        matched_skills == {j \in job_skills_set : HasKey(cs, j)}
        total_skill_score ==
            SumOver(job_skills_set, [j \in job_skills_set |-> Contribution(j, cs)])
        max_possible_score == Cardinality(job_skills_set) * MaxSkillLevel * 100
    IN  IF Len(required) = 0 \/ Len(skills) = 0 THEN Zero
        ELSE IF matched_skills = {} THEN Zero
        ELSE IF max_possible_score > 0
             THEN Norm([num |-> total_skill_score * 100, den |-> max_possible_score])
             ELSE Zero


-----------------------------------------------------------------------------
(* CandidateMatcherService: recency score *)

\* A completion_date is None, the empty string, a string strptime rejects, or
\* a date that lies days_ago days before now.
NoDate == [kind |-> "none", days_ago |-> 0]
EmptyDate == [kind |-> "empty", days_ago |-> 0]
BadDate == [kind |-> "bad", days_ago |-> 0]
DateAgo(d) == [kind |-> "date", days_ago |-> d]

\* The score of one project with the bucket limits excluded (< for <=).
ProjectScoreExclusive(project) ==
    LET date == project.completion_date IN
    IF date.kind \in {"none", "empty"} THEN 70
    ELSE IF date.kind = "bad" THEN 50
    ELSE IF date.days_ago < 30 THEN 100
    ELSE IF date.days_ago < 90 THEN 80
    ELSE IF date.days_ago < 180 THEN 60
    ELSE IF date.days_ago < 365 THEN 40
    ELSE 20

\* The score of one project with a date in the future taken as unusable (50).
ProjectScoreFutureNeutral(project) ==
    LET date == project.completion_date IN
    IF date.kind \in {"none", "empty"} THEN 70
    ELSE IF date.kind = "bad" THEN 50
    ELSE IF date.days_ago < 0 THEN 50
    ELSE IF date.days_ago <= 30 THEN 100
    ELSE IF date.days_ago <= 90 THEN 80
    ELSE IF date.days_ago <= 180 THEN 60
    ELSE IF date.days_ago <= 365 THEN 40
    ELSE 20

\* the score of one project
ProjectScore(project) ==
    LET date == project.completion_date IN
    IF date.kind \in {"none", "empty"} THEN 70
    ELSE IF date.kind = "bad" THEN 50
    ELSE IF date.days_ago <= 30 THEN 100
    ELSE IF date.days_ago <= 90 THEN 80
    ELSE IF date.days_ago <= 180 THEN 60
    ELSE IF date.days_ago <= 365 THEN 40
    ELSE 20

RECURSIVE SumSeq(_, _)
SumSeq(seq, i) == IF i > Len(seq) THEN 0 ELSE seq[i] + SumSeq(seq, i + 1)

\* _calculate_recency_score(projects), in points, as the fraction num / den
CalculateRecencyScore(project_list) ==
    IF Len(project_list) = 0 THEN [num |-> 50, den |-> 1]
    ELSE Norm([num |-> SumSeq([i \in 1..Len(project_list) |->
                                  ProjectScore(project_list[i])], 1),
               den |-> Len(project_list)])

-----------------------------------------------------------------------------
(* Match and _evaluate_candidate *)

\* round(x, 2) of the fraction x = num / den (den > 0), in hundredths; a tie
\* goes to the even neighbour.
Round2(x) ==
    LET n == 100 * x.num
        q == n \div x.den
        r == n % x.den
    IN  IF 2 * r < x.den THEN q
        ELSE IF 2 * r > x.den THEN q + 1
        ELSE IF q % 2 = 0 THEN q ELSE q + 1

\* The weighted overall score with the weights divided by their sum.
WeightedSumNormalised(skill, eval, recency, weights) ==
    LET total == weights.skill + weights.eval + weights.recency IN
    Norm([num |-> skill.num * weights.skill * eval.den * recency.den
                  + eval.num * weights.eval * skill.den * recency.den
                  + recency.num * weights.recency * skill.den * eval.den,
          den |-> (IF total > 0 THEN total ELSE 10) * skill.den * eval.den * recency.den])

\* skill_score * weights.skill + eval_score * weights.eval
\*     + recency_score * weights.recency      (weights are tenths)
WeightedSum(skill, eval, recency, weights) ==
    Norm([num |-> skill.num * weights.skill * eval.den * recency.den
                  + eval.num * weights.eval * skill.den * recency.den
                  + recency.num * weights.recency * skill.den * eval.den,
          den |-> 10 * skill.den * eval.den * recency.den])

ScoreMin == 0
ScoreMax == 100

\* The constraints of the Match model (ge=0.0, le=100.0 on the four scores).
MatchValid(m) ==
    \A f \in {m.score, m.skill_score, m.eval_score, m.recency_score} :
        ScoreMin * 100 <= f /\ f <= ScoreMax * 100

\* The eval_score of a Match cut to 2 decimals instead of rounded.
MatchEvalScoreTruncated(eval_score) == (100 * eval_score.num) \div eval_score.den

\* eval_score=round(eval_score, 2), in hundredths
MatchEvalScore(eval_score) == Round2(eval_score)

-----------------------------------------------------------------------------
(* _generate_match_reasons *)

Digits == <<"0", "1", "2", "3", "4", "5", "6", "7", "8", "9">>

RECURSIVE FormatInt(_)
FormatInt(n) ==
    IF n < 10 THEN <<Digits[n + 1]>>
    ELSE Append(FormatInt(n \div 10), Digits[(n % 10) + 1])

\* str() of a float level, given in tenths: 40 is "4.0", 45 is "4.5"
FormatLevel(level) ==
    LET a == IF level < 0 THEN 0 - level ELSE level IN
    (IF level < 0 THEN <<"-">> ELSE <<>>)
        \o FormatInt(a \div 10) \o <<".">> \o <<Digits[(a % 10) + 1]>>

\* f"{skill} (level {level})"
FormatStrength(skill, level) ==
    skill \o <<" ", "(", "l", "e", "v", "e", "l", " ">> \o FormatLevel(level) \o <<")">>

\* f"{job_skill} (low level: {skill_level})"
FormatGap(skill, level) ==
    skill \o <<" ", "(", "l", "o", "w", " ", "l", "e", "v", "e", "l", ":", " ">>
          \o FormatLevel(level) \o <<")">>

\* The class of a level with the limits excluded (> for >=).
ClassifyLevelExclusive(skill_level) ==
    IF skill_level > 40 THEN "strength"
    ELSE IF skill_level > 20 THEN "top"
    ELSE "gap"

\* the branch taken for a required skill the candidate has at skill_level
ClassifyLevel(skill_level) ==
    IF skill_level >= 40 THEN "strength"
    ELSE IF skill_level >= 20 THEN "top"
    ELSE "gap"

NoLists == [top_terms |-> <<>>, skill_gaps |-> <<>>, strengths |-> <<>>]

\* for job_skill in job_skills_lower: ...
RECURSIVE RequiredReasonsFrom(_, _, _, _)
RequiredReasonsFrom(candidate_skills_lower, job_skills_lower, i, acc) ==
    IF i > Len(job_skills_lower) THEN acc
    ELSE
      LET job_skill == job_skills_lower[i]
          next ==
            IF HasKey(candidate_skills_lower, job_skill)
            THEN LET skill_level == Get(candidate_skills_lower, job_skill)
                     class == ClassifyLevel(skill_level)
                 IN  IF class = "strength"
                     THEN [acc EXCEPT
                             !.strengths = Append(@, FormatStrength(job_skill, skill_level)),
                             !.top_terms = Append(@, job_skill)]
                     ELSE IF class = "top"
                     THEN [acc EXCEPT !.top_terms = Append(@, job_skill)]
                     ELSE [acc EXCEPT
                             !.skill_gaps = Append(@, FormatGap(job_skill, skill_level))]
            ELSE [acc EXCEPT !.skill_gaps = Append(@, job_skill)]
      IN  RequiredReasonsFrom(candidate_skills_lower, job_skills_lower, i + 1, next)

\* for skill, level in candidate.skills.items(): ...
RECURSIVE ExtraStrengthsFrom(_, _, _, _)
ExtraStrengthsFrom(skills, job_skills_lower, i, acc) ==
    IF i > Len(skills) THEN acc
    ELSE
      LET skill == skills[i].name
          level == skills[i].level
          listed == \E j \in 1..Len(job_skills_lower) :
                        job_skills_lower[j] = Lower(skill)
          next == IF level >= 45 /\ ~listed
                  THEN [acc EXCEPT !.strengths = Append(@, FormatStrength(skill, level))]
                  ELSE acc
      IN  ExtraStrengthsFrom(skills, job_skills_lower, i + 1, next)

\* the three lists of _generate_match_reasons before they are cut
CollectMatchReasons(candidate, required) ==
    LET candidate_skills_lower == LowerKeys(candidate.skills)
        job_skills_lower == [i \in 1..Len(required) |-> Lower(required[i])]
        listed == RequiredReasonsFrom(candidate_skills_lower, job_skills_lower, 1, NoLists)
    IN  ExtraStrengthsFrom(candidate.skills, job_skills_lower, 1, listed)

\* seq[:n]
Take(seq, n) == SubSeq(seq, 1, IF Len(seq) < n THEN Len(seq) ELSE n)

\* The three lists all cut to 3 entries.
TruncateReasonsShort(lists) ==
    [top_terms |-> Take(lists.top_terms, 3),
     skill_gaps |-> Take(lists.skill_gaps, 3),
     strengths |-> Take(lists.strengths, 3)]

\* The three lists all cut to 5 entries.
TruncateReasonsEven(lists) ==
    [top_terms |-> Take(lists.top_terms, 5),
     skill_gaps |-> Take(lists.skill_gaps, 5),
     strengths |-> Take(lists.strengths, 5)]

\* MatchReasons(top_terms=top_terms[:5], skill_gaps=skill_gaps[:5], strengths=strengths[:3])
TruncateReasons(lists) ==
    [top_terms |-> Take(lists.top_terms, 5),
     skill_gaps |-> Take(lists.skill_gaps, 5),
     strengths |-> Take(lists.strengths, 3)]

GenerateMatchReasons(candidate, required) ==
    TruncateReasons(CollectMatchReasons(candidate, required))

-----------------------------------------------------------------------------
(* _evaluate_candidate *)

\* _evaluate_candidate(candidate, job_skills, weights): the Match, and whether
\* constructing it raised a validation error.
EvaluateCandidate(candidate, required, weights) ==
    LET skill == CalculateSkillScore(candidate.skills, required)
        eval_score == Norm([num |-> candidate.eval_score, den |-> 1000])
        recency == CalculateRecencyScore(candidate.recent_projects)
        overall_score == WeightedSum(skill, eval_score, recency, weights)
        match == [student_id |-> candidate.student_id,
                  score |-> Round2(overall_score),
                  reasons |-> GenerateMatchReasons(candidate, required),
                  skill_score |-> Round2(skill),
                  eval_score |-> MatchEvalScore(eval_score),
                  recency_score |-> Round2(recency)]
    IN  [raised |-> ~MatchValid(match), match |-> match]

-----------------------------------------------------------------------------
(* match_candidates *)

DefaultJobSkills == <<s_python, s_machine_learning, s_sql, s_communication>>

\* x goes before the first element of smaller score: equal scores keep their order
InsertStable(sorted, x) ==
    LET k == Cardinality({i \in 1..Len(sorted) : sorted[i].score >= x.score})
    IN  SubSeq(sorted, 1, k) \o <<x>> \o SubSeq(sorted, k + 1, Len(sorted))

\* x goes before the first element of smaller or equal score
InsertBeforeEqual(sorted, x) ==
    LET k == Cardinality({i \in 1..Len(sorted) : sorted[i].score > x.score})
    IN  SubSeq(sorted, 1, k) \o <<x>> \o SubSeq(sorted, k + 1, Len(sorted))

RECURSIVE SortUnstableFrom(_, _, _)
SortUnstableFrom(matches, i, acc) ==
    IF i > Len(matches) THEN acc
    ELSE SortUnstableFrom(matches, i + 1, InsertBeforeEqual(acc, matches[i]))

\* A descending sort that reverses the order of equal scores.
SortByScoreUnstable(matches) == SortUnstableFrom(matches, 1, <<>>)

RECURSIVE SortFrom(_, _, _)
SortFrom(matches, i, acc) ==
    IF i > Len(matches) THEN acc
    ELSE SortFrom(matches, i + 1, InsertStable(acc, matches[i]))

\* matches.sort(key=lambda x: x.score, reverse=True): list.sort is stable, and
\* with reverse=True equal elements still keep their original order.
SortByScore(matches) == SortFrom(matches, 1, <<>>)

\* A slice that loses the last of the kept elements.
SliceShort(seq, k) ==
    IF k >= 0 THEN SubSeq(seq, 1, IF k - 1 < Len(seq) THEN k - 1 ELSE Len(seq))
    ELSE SubSeq(seq, 1, Len(seq) + k)

\* seq[:k]
Slice(seq, k) ==
    IF k >= 0 THEN SubSeq(seq, 1, IF k < Len(seq) THEN k ELSE Len(seq))
    ELSE SubSeq(seq, 1, Len(seq) + k)

\* match_candidates with the required skills looked up by the job_id.
MatchCandidatesByJob(req, skills_arg) ==
    LET required == IF skills_arg # None THEN skills_arg
                    ELSE IF req.job_id = "job-2" THEN <<s_sql>> ELSE DefaultJobSkills
        results == [i \in 1..Len(req.candidates) |->
                       EvaluateCandidate(req.candidates[i], required, req.weights)]
        matches == [i \in 1..Len(results) |-> results[i].match]
        top_matches == Slice(SortByScore(matches), req.top_k)
    IN  IF \E i \in 1..Len(results) : results[i].raised
        THEN [raised |-> TRUE, job_id |-> None, matches |-> <<>>, total_candidates |-> 0]
        ELSE [raised |-> FALSE,
              job_id |-> req.job_id,
              matches |-> top_matches,
              total_candidates |-> Len(req.candidates)]

\* match_candidates(request, job_skills): the MatchResponse, or raised when
\* evaluating some candidate raised (the exception is logged and re-raised).
MatchCandidates(req, skills_arg) ==
    LET required == IF skills_arg = None THEN DefaultJobSkills ELSE skills_arg
        results == [i \in 1..Len(req.candidates) |->
                       EvaluateCandidate(req.candidates[i], required, req.weights)]
        matches == [i \in 1..Len(results) |-> results[i].match]
        top_matches == Slice(SortByScore(matches), req.top_k)
    IN  IF \E i \in 1..Len(results) : results[i].raised
        THEN [raised |-> TRUE, job_id |-> None, matches |-> <<>>, total_candidates |-> 0]
        ELSE [raised |-> FALSE,
              job_id |-> req.job_id,
              matches |-> top_matches,
              total_candidates |-> Len(req.candidates)]

-----------------------------------------------------------------------------
(* The boundary: the field constraints of MatchRequest, Candidate, MatchWeights *)

EvalScoreMin == 0
EvalScoreMax == 100
TopKMin == 1
TopKMax == 100
WeightMin == 0
WeightMax == 1

\* Candidate with the upper limit of eval_score left out.
CandidateValidNoUpper(c) == EvalScoreMin * 1000 <= c.eval_score

\* Candidate: eval_score has ge=0.0, le=100.0; skills is Dict[str, float], any
\* float is accepted as a level.
CandidateValid(c) ==
    EvalScoreMin * 1000 <= c.eval_score /\ c.eval_score <= EvalScoreMax * 1000

\* MatchWeights: each component has ge=0.0, le=1.0 (weights are tenths)
WeightsValid(w) ==
    \A x \in {w.skill, w.eval, w.recency} : WeightMin * 10 <= x /\ x <= WeightMax * 10

\* MatchRequest: top_k has ge=1, le=100
RequestValid(req) ==
    /\ \A i \in 1..Len(req.candidates) : CandidateValid(req.candidates[i])
    /\ TopKMin <= req.top_k /\ req.top_k <= TopKMax
    /\ WeightsValid(req.weights)

-----------------------------------------------------------------------------
(* Inputs *)

Entry(n, l) == [name |-> n, level |-> l]
Project(date) == [completion_date |-> date]

\* Candidate profiles a request is made of (student_id is given by position).
CandidatePool ==
    { [skills |-> <<Entry(s_python, 50)>>, eval_score |-> 100000,
       recent_projects |-> <<>>],
      [skills |-> <<>>, eval_score |-> 0, recent_projects |-> <<>>],
      [skills |-> <<Entry(s_python, 50), Entry(s_machine_learning, 50),
                    Entry(s_sql, 50), Entry(s_communication, 50)>>,
       eval_score |-> 100000, recent_projects |-> <<Project(DateAgo(0))>>],
      [skills |-> <<Entry(s_python, 90)>>, eval_score |-> 50000,
       recent_projects |-> <<>>],
      [skills |-> <<Entry(s_py, 40), Entry(s_sql, 25)>>, eval_score |-> 85126,
       recent_projects |-> <<Project(BadDate), Project(DateAgo(400))>>],
      [skills |-> <<Entry(s_python, 40)>>, eval_score |-> 150000,
       recent_projects |-> <<>>] }

TopKs == {0, 1, 2, 100, 101}

W(s, e, r) == [skill |-> s, eval |-> e, recency |-> r]
DefaultWeights == W(6, 3, 1)
WeightsSet == {DefaultWeights, W(10, 10, 10), W(0, 0, 0), W(2, 1, 1),
               W(15, 0, 0), W(6, 3, -1)}

ServiceJobSkills == {<<s_python>>, <<>>, <<s_Python, s_sql>>}

SeqsUpTo(S, n) == UNION {[1..k -> S] : k \in 0..n}

WithIds(cands) ==
    [i \in 1..Len(cands) |->
        [student_id |-> i, skills |-> cands[i].skills,
         eval_score |-> cands[i].eval_score,
         recent_projects |-> cands[i].recent_projects]]

JobIds == {"job-1", "job-2"}

\* the second job_id comes with the requests of at most one candidate
Requests ==
    {r \in {[job_id |-> id, candidates |-> WithIds(cs), top_k |-> k, weights |-> w] :
                id \in JobIds, cs \in SeqsUpTo(CandidatePool, MaxCands),
                k \in TopKs, w \in WeightsSet} :
        r.job_id = "job-1" \/ Len(r.candidates) <= 1}

NoRequest == [job_id |-> "job-1", candidates |-> <<>>, top_k |-> 1,
              weights |-> DefaultWeights]

\* the variables of the paths a specification does not exercise
NoRecency == projects = <<>> /\ recency_score = None
NoReasons == collected = None /\ reasons = None
NoParse == jd_text = <<>> /\ set_order = "forward" /\ parsed = None
NoPool == pending = {} /\ pool_matches = <<>>
NoSession == jd_parser = None /\ history = <<>>
NoAnomaly == anomaly_request = None /\ anomaly_response = None
NoGrade == grade_request = None /\ grade_analysis = None /\ grade_response = None
NoLead == model = None /\ model_file = "absent" /\ lead_log = <<>>
NoExt == NoPool /\ NoSession /\ NoAnomaly /\ NoGrade /\ NoLead

-----------------------------------------------------------------------------
(* The match specification: a request arrives over HTTP (POST /api/ai/jd/match) *)
(* or match_candidates is called on a MatchRequest with a job_skills list.      *)

Init ==
    /\ via \in {"http", "service"}
    /\ pc = "received"
    /\ request \in Requests
    /\ via = "service" => RequestValid(request)
    /\ job_skills \in (IF via = "http" THEN {None} ELSE ServiceJobSkills)
    /\ invoked = FALSE
    /\ status = 0
    /\ response = None
    /\ candidate_skills = <<>>
    /\ skill_score = None
    /\ partial = None
    /\ NoRecency /\ NoReasons /\ NoParse /\ NoExt

\* FastAPI builds the MatchRequest from the body; a constraint violation is
\* answered 422 and the handler does not run.
ValidateRequest ==
    /\ via = "http" /\ pc = "received"
    /\ IF RequestValid(request)
       THEN pc' = "validated" /\ status' = status
       ELSE pc' = "rejected" /\ status' = 422
    /\ UNCHANGED <<via, request, job_skills, invoked, response,
                   candidate_skills, skill_score, partial,
                   recencyVars, reasonVars, jdVars, extVars>>

\* async def match_candidates(request): calls the service without job_skills;
\* any exception becomes HTTPException(500).
MatchEndpoint ==
    /\ via = "http" /\ pc = "validated"
    /\ \E result \in {MatchCandidates(request, None)} :
       /\ invoked' = TRUE
       /\ IF result.raised
          THEN pc' = "raised" /\ status' = 500 /\ response' = None
          ELSE /\ pc' = "returned" /\ status' = 200
               /\ response' = [job_id |-> result.job_id,
                               matches |-> result.matches,
                               total_candidates |-> result.total_candidates]
    /\ UNCHANGED <<via, request, job_skills, candidate_skills, skill_score, partial,
                   recencyVars, reasonVars, jdVars, extVars>>

\* CandidateMatcherService.match_candidates(request, job_skills)
CallMatchCandidates ==
    /\ via = "service" /\ pc = "received"
    /\ \E result \in {MatchCandidates(request, job_skills)} :
       /\ invoked' = TRUE
       /\ IF result.raised
          THEN pc' = "raised" /\ response' = None
          ELSE /\ pc' = "returned"
               /\ response' = [job_id |-> result.job_id,
                               matches |-> result.matches,
                               total_candidates |-> result.total_candidates]
    /\ UNCHANGED <<via, request, job_skills, status, candidate_skills,
                   skill_score, partial, recencyVars, reasonVars, jdVars, extVars>>

Next == ValidateRequest \/ MatchEndpoint \/ CallMatchCandidates

Spec == Init /\ [][Next]_vars

-----------------------------------------------------------------------------
(* The pool specification: the body of the loop of match_candidates is run   *)
(* once per candidate, in any order (workers of a pool finishing in any      *)
(* order); each result is appended to matches when it is ready, and the sort *)
(* and the slice run when no candidate is left.                              *)

PoolCandidates ==
    { [skills |-> <<Entry(s_python, 50)>>, eval_score |-> 100000,
       recent_projects |-> <<>>],
      [skills |-> <<>>, eval_score |-> 0, recent_projects |-> <<>>],
      [skills |-> <<Entry(s_python, 90)>>, eval_score |-> 50000,
       recent_projects |-> <<>>],
      [skills |-> <<Entry(s_python, 40)>>, eval_score |-> 150000,
       recent_projects |-> <<>>] }

PoolRequests ==
    {[job_id |-> "job-1", candidates |-> WithIds(cs), top_k |-> k, weights |-> w] :
        cs \in SeqsUpTo(PoolCandidates, MaxPool),
        k \in {1, 2}, w \in {DefaultWeights, W(0, 0, 0)}}

InitPool ==
    /\ via = "pool"
    /\ pc = "received"
    /\ request \in PoolRequests
    /\ job_skills \in {None, <<s_Python, s_sql>>}
    /\ invoked = TRUE
    /\ status = 0
    /\ response = None
    /\ candidate_skills = <<>>
    /\ skill_score = None
    /\ partial = None
    /\ pending = 1..Len(request.candidates)
    /\ pool_matches = <<>>
    /\ NoRecency /\ NoReasons /\ NoParse /\ NoSession /\ NoAnomaly /\ NoGrade /\ NoLead

\* An evaluation that also reads the first candidate of the list.
EvaluateAtShared(req, skills_arg, i) ==
    LET required == IF skills_arg = None THEN DefaultJobSkills ELSE skills_arg
        first == EvaluateCandidate(req.candidates[1], required, req.weights)
        own == EvaluateCandidate(req.candidates[i], required, req.weights)
    IN  [own EXCEPT !.match.eval_score = first.match.eval_score]

\* self._evaluate_candidate(candidate, job_skills, request.weights) for the
\* candidate at position i
EvaluateAt(req, skills_arg, i) ==
    LET required == IF skills_arg = None THEN DefaultJobSkills ELSE skills_arg
    IN  EvaluateCandidate(req.candidates[i], required, req.weights)

\* one pass of the loop body, for any candidate that is left; an exception
\* ends the call
EvaluateOne ==
    /\ via = "pool" /\ pc = "received"
    /\ \E i \in pending :
          LET result == EvaluateAt(request, job_skills, i) IN
          IF result.raised
          THEN pc' = "raised" /\ UNCHANGED <<pending, pool_matches>>
          ELSE /\ pc' = pc
               /\ pending' = pending \ {i}
               /\ pool_matches' = Append(pool_matches, result.match)
    /\ UNCHANGED <<via, request, job_skills, invoked, status, response,
                   candidate_skills, skill_score, partial,
                   recencyVars, reasonVars, jdVars, sessionVars, anomalyVars,
                   gradeVars, leadVars>>

\* matches.sort(...); top_matches = matches[:request.top_k]; return MatchResponse
SortAndReturn ==
    /\ via = "pool" /\ pc = "received" /\ pending = {}
    /\ pc' = "returned"
    /\ response' = [job_id |-> request.job_id,
                    matches |-> Slice(SortByScore(pool_matches), request.top_k),
                    total_candidates |-> Len(request.candidates)]
    /\ UNCHANGED <<via, request, job_skills, invoked, status,
                   candidate_skills, skill_score, partial,
                   recencyVars, reasonVars, jdVars, extVars>>

NextPool == EvaluateOne \/ SortAndReturn

PoolSpec == InitPool /\ [][NextPool]_vars


-----------------------------------------------------------------------------
(* The skill specification: _calculate_skill_score and                        *)
(* _find_partial_skill_match applied to a skill map and a required-skill list. *)

CandidateNames == {s_python, s_Python, s_py, s_sql, s_mysql}
Levels == {20, 50, 60}
RequiredNames == {s_python, s_Python, s_database, s_sql}

\* dicts: the keys are distinct
SkillMaps ==
    {d \in SeqsUpTo({Entry(n, l) : n \in CandidateNames, l \in Levels}, MaxSkills) :
        \A i, j \in 1..Len(d) : i # j => d[i].name # d[j].name}

RequiredLists == SeqsUpTo(RequiredNames, MaxReq)

InitSkill ==
    /\ via = "skill"
    /\ pc = "received"
    /\ request = NoRequest
    /\ job_skills \in RequiredLists
    /\ invoked = FALSE
    /\ status = 0
    /\ response = None
    /\ candidate_skills \in SkillMaps
    /\ skill_score = None
    /\ partial = None
    /\ NoRecency /\ NoReasons /\ NoParse /\ NoExt

\* self._calculate_skill_score(candidate.skills, job_skills)
CallCalculateSkillScore ==
    /\ via = "skill" /\ pc = "received"
    /\ skill_score' = CalculateSkillScore(candidate_skills, job_skills)
    /\ pc' = "scored"
    /\ UNCHANGED <<via, request, job_skills, invoked, status, response,
                   candidate_skills, partial, recencyVars, reasonVars, jdVars, extVars>>

\* self._find_partial_skill_match(job_skill, candidate_skills_lower), called as
\* in the loop of _calculate_skill_score: for a lower-cased job skill that is
\* no key of the lower-cased skill map.
CallFindPartialSkillMatch ==
    /\ via = "skill" /\ pc = "received"
    /\ \E i \in 1..Len(job_skills) :
          LET job_skill == Lower(job_skills[i])
              cs == LowerKeys(candidate_skills)
          IN  /\ ~HasKey(cs, job_skill)
              /\ partial' = [job_skill |-> job_skill,
                             score |-> FindPartialSkillMatch(job_skill, cs)]
    /\ pc' = "partial"
    /\ UNCHANGED <<via, request, job_skills, invoked, status, response,
                   candidate_skills, skill_score, recencyVars, reasonVars, jdVars, extVars>>

NextSkill == CallCalculateSkillScore \/ CallFindPartialSkillMatch

SkillSpec == InitSkill /\ [][NextSkill]_vars


-----------------------------------------------------------------------------
(* The recency specification: _calculate_recency_score applied to a project list *)

DaysAgo == {-1, 0, 30, 31, 90, 91, 180, 181, 365, 366}
CompletionDates == {NoDate, EmptyDate, BadDate} \cup {DateAgo(d) : d \in DaysAgo}
ProjectLists == SeqsUpTo({Project(date) : date \in CompletionDates}, MaxProjects)

InitRecency ==
    /\ via = "recency"
    /\ pc = "received"
    /\ request = NoRequest
    /\ job_skills = None
    /\ invoked = FALSE
    /\ status = 0
    /\ response = None
    /\ candidate_skills = <<>>
    /\ skill_score = None
    /\ partial = None
    /\ projects \in ProjectLists
    /\ recency_score = None
    /\ NoReasons /\ NoParse /\ NoExt

\* self._calculate_recency_score(candidate.recent_projects)
CallCalculateRecencyScore ==
    /\ via = "recency" /\ pc = "received"
    /\ recency_score' = CalculateRecencyScore(projects)
    /\ pc' = "scored"
    /\ UNCHANGED <<via, request, job_skills, invoked, status, response,
                   candidate_skills, skill_score, partial, projects,
                   reasonVars, jdVars, extVars>>

NextRecency == CallCalculateRecencyScore

RecencySpec == InitRecency /\ [][NextRecency]_vars

-----------------------------------------------------------------------------
(* Properties of the recency specification (RecencySpec) *)

\* the value the recency rule gives one completion date: a date d days ago is
\* worth 100, 80, 60, 40 or 20 by its bucket, a string that does not parse 50,
\* no date 70 (None, or the empty string, which the code also takes as absent)
RuleProjectValue(date) ==
    CASE date.kind = "date" ->
            (IF date.days_ago <= 30 THEN 100
             ELSE IF date.days_ago <= 90 THEN 80
             ELSE IF date.days_ago <= 180 THEN 60
             ELSE IF date.days_ago <= 365 THEN 40
             ELSE 20)
      [] date.kind = "bad" -> 50
      [] OTHER -> 70

\* C11: recency_score is 50 without projects, otherwise the arithmetic mean of
\* the per-project values (buckets 100/80/60/40/20 at 30/90/180/365 days, 50
\* for a date that does not parse, 70 for no date); one project completed
\* today scores 100 and one project dated "not-a-date" scores 50.
C11_Recency ==
    pc = "scored" /\ via = "recency" =>
        /\ Len(projects) = 0 => recency_score = [num |-> 50, den |-> 1]
        /\ Len(projects) > 0 =>
              recency_score.num * Len(projects) =
                  recency_score.den *
                  SumSeq([i \in 1..Len(projects) |->
                             RuleProjectValue(projects[i].completion_date)], 1)
        /\ projects = <<Project(DateAgo(0))>> => recency_score = [num |-> 100, den |-> 1]
        /\ projects = <<Project(BadDate)>> => recency_score = [num |-> 50, den |-> 1]

\* the mean of a project on a bucket limit and a project with a bad date
C11_Witness ==
    /\ pc = "scored" /\ via = "recency"
    /\ projects = <<Project(DateAgo(90)), Project(BadDate)>>
    /\ recency_score = [num |-> 65, den |-> 1]

\* C29: for a non-empty project list, whatever the completion dates (past,
\* future, missing, empty or unparseable), recency_score is in [20,100]; a
\* project completed in the future contributes 100, so a list of such
\* projects scores 100.
C29_RecencyRange ==
    pc = "scored" /\ via = "recency" /\ Len(projects) > 0 =>
        /\ 20 * recency_score.den <= recency_score.num
        /\ recency_score.num <= 100 * recency_score.den
        /\ (\A i \in 1..Len(projects) :
                /\ projects[i].completion_date.kind = "date"
                /\ projects[i].completion_date.days_ago < 0)
            => recency_score = [num |-> 100, den |-> 1]
        /\ \A i \in 1..Len(projects) :
              (/\ projects[i].completion_date.kind = "date"
               /\ projects[i].completion_date.days_ago < 0)
              => recency_score.num * Len(projects) >=
                     recency_score.den * (100 + 20 * (Len(projects) - 1))

\* a project completed in the future next to one older than a year: the mean
\* of 100 and 20
C29_Witness ==
    /\ pc = "scored" /\ via = "recency"
    /\ projects = <<Project(DateAgo(-1)), Project(DateAgo(366))>>
    /\ recency_score = [num |-> 60, den |-> 1]

-----------------------------------------------------------------------------
(* The reasons specification: _generate_match_reasons applied to one candidate *)

ReasonNames == {s_Python, s_mysql, s_postgresql}
ReasonLevels == {15, 20, 40, 45, 50}
ReasonRequired == {s_Python, s_sql}

ReasonMaps ==
    {d \in SeqsUpTo({Entry(n, l) : n \in ReasonNames, l \in ReasonLevels}, MaxReasonSkills) :
        \A i, j \in 1..Len(d) : i # j => d[i].name # d[j].name}

ReasonLists == SeqsUpTo(ReasonRequired, MaxReasonReq)

InitReasons ==
    /\ via = "reasons"
    /\ pc = "received"
    /\ request = NoRequest
    /\ job_skills \in ReasonLists
    /\ invoked = FALSE
    /\ status = 0
    /\ response = None
    /\ candidate_skills \in ReasonMaps
    /\ skill_score = None
    /\ partial = None
    /\ NoRecency /\ NoReasons /\ NoParse /\ NoExt

\* self._generate_match_reasons(candidate, job_skills)
CallGenerateMatchReasons ==
    /\ via = "reasons" /\ pc = "received"
    /\ collected' = CollectMatchReasons([skills |-> candidate_skills], job_skills)
    /\ reasons' = GenerateMatchReasons([skills |-> candidate_skills], job_skills)
    /\ pc' = "reasoned"
    /\ UNCHANGED <<via, request, job_skills, invoked, status, response,
                   candidate_skills, skill_score, partial, recencyVars, jdVars, extVars>>

NextReasons == CallGenerateMatchReasons

ReasonsSpec == InitReasons /\ [][NextReasons]_vars

-----------------------------------------------------------------------------
(* Properties of the reasons specification (ReasonsSpec) *)

\* the skill maps with the same name-to-level pairs as d, in every key order
Reorderings(d) ==
    {[i \in 1..Len(d) |-> d[p[i]]] :
        p \in {q \in [1..Len(d) -> 1..Len(d)] :
                  \A i, j \in 1..Len(d) : i # j => q[i] # q[j]}}

\* C13: two candidates whose skill maps hold the same name-to-level pairs in
\* different key order get the same skill_score and the same strengths list.
C13_OrderIndependent ==
    pc = "reasoned" =>
        \A d \in Reorderings(candidate_skills) :
            /\ GenerateMatchReasons([skills |-> d], job_skills).strengths = reasons.strengths
            /\ CalculateSkillScore(d, job_skills) =
                   CalculateSkillScore(candidate_skills, job_skills)

Range(seq) == {seq[i] : i \in 1..Len(seq)}

Count(seq, x) == Cardinality({i \in 1..Len(seq) : seq[i] = x})

\* C14: of the required skills (lower-cased), one the candidate has at level
\* >= 4 is in strengths (with its level) and in top_terms, one at a level in
\* [2,4) is in top_terms only, one at a level < 2 is in skill_gaps (with its
\* level), and one the candidate does not have is in skill_gaps by its bare
\* name; each occurrence in the required list gives one entry.
C14_Classification ==
    pc = "reasoned" =>
        LET cs == LowerKeys(candidate_skills)
            lowered == [i \in 1..Len(job_skills) |-> Lower(job_skills[i])]
        IN  \A i \in 1..Len(lowered) :
              LET r == lowered[i]
                  n == Count(lowered, r)
                  own == {FormatStrength(r, l) : l \in ReasonLevels}
                  low == {FormatGap(r, l) : l \in ReasonLevels}
              IN
              IF HasKey(cs, r)
              THEN LET l == Get(cs, r) IN
                   /\ l >= 40 =>
                        /\ Count(collected.strengths, FormatStrength(r, l)) = n
                        /\ Count(collected.top_terms, r) = n
                        /\ Range(collected.skill_gaps) \cap ({r} \cup low) = {}
                   /\ l >= 20 /\ l < 40 =>
                        /\ Count(collected.top_terms, r) = n
                        /\ Range(collected.strengths) \cap own = {}
                        /\ Range(collected.skill_gaps) \cap ({r} \cup low) = {}
                   /\ l < 20 =>
                        /\ Count(collected.skill_gaps, FormatGap(r, l)) = n
                        /\ r \notin Range(collected.skill_gaps)
                        /\ r \notin Range(collected.top_terms)
                        /\ Range(collected.strengths) \cap own = {}
              ELSE /\ Count(collected.skill_gaps, r) = n
                   /\ r \notin Range(collected.top_terms)
                   /\ Range(collected.strengths) \cap own = {}
                   /\ Range(collected.skill_gaps) \cap low = {}

\* all four branches are taken in one call: Python at 4.0 on the limit of a
\* strength, and sql missing
C14_Witness ==
    /\ pc = "reasoned"
    /\ job_skills = <<s_Python, s_sql>>
    /\ candidate_skills = <<Entry(s_Python, 40)>>
    /\ reasons = [top_terms |-> <<s_python>>,
                  skill_gaps |-> <<s_sql>>,
                  strengths |-> <<FormatStrength(s_python, 40)>>]

\* the required skills that are strengths, in required-list order
RequiredStrengths(cs, lowered) ==
    LET IsStrength(r) == HasKey(cs, r) /\ Get(cs, r) >= 40
        kept == SelectSeq(lowered, IsStrength)
    IN  [i \in 1..Len(kept) |-> FormatStrength(kept[i], Get(cs, kept[i]))]

\* the candidate's own skills at level >= 4.5 that are not required, in map order
OwnStrengths(d, lowered) ==
    LET IsOwn(e) == e.level >= 45 /\ Lower(e.name) \notin Range(lowered)
        kept == SelectSeq(d, IsOwn)
    IN  [i \in 1..Len(kept) |-> FormatStrength(kept[i].name, kept[i].level)]

IsPrefix(a, b) == Len(a) <= Len(b) /\ a = SubSeq(b, 1, Len(a))

\* C15: top_terms has at most 5 entries, skill_gaps at most 5, strengths at
\* most 3; each is the prefix of its untruncated list, cut only at the limit;
\* untruncated, top_terms follows the required list, and strengths is the
\* required-skill strengths in required-list order followed by the own skills
\* at level >= 4.5 that are not required, in the order of the skill map.
C15_Truncation ==
    pc = "reasoned" =>
        LET cs == LowerKeys(candidate_skills)
            lowered == [i \in 1..Len(job_skills) |-> Lower(job_skills[i])]
            IsTop(r) == HasKey(cs, r) /\ Get(cs, r) >= 20
            Cut(n, m) == IF n < m THEN n ELSE m
        IN  /\ Len(reasons.top_terms) = Cut(Len(collected.top_terms), 5)
            /\ Len(reasons.skill_gaps) = Cut(Len(collected.skill_gaps), 5)
            /\ Len(reasons.strengths) = Cut(Len(collected.strengths), 3)
            /\ IsPrefix(reasons.top_terms, collected.top_terms)
            /\ IsPrefix(reasons.skill_gaps, collected.skill_gaps)
            /\ IsPrefix(reasons.strengths, collected.strengths)
            /\ collected.top_terms = SelectSeq(lowered, IsTop)
            /\ collected.strengths =
                   RequiredStrengths(cs, lowered) \o OwnStrengths(candidate_skills, lowered)

\* strengths is cut: two required strengths and two own strengths were
\* collected, and the last own strength is dropped
C15_Witness ==
    /\ pc = "reasoned"
    /\ job_skills = <<s_Python, s_Python>>
    /\ candidate_skills =
           <<Entry(s_mysql, 50), Entry(s_Python, 40), Entry(s_postgresql, 45)>>
    /\ Len(collected.strengths) = 4
    /\ reasons.strengths = <<FormatStrength(s_python, 40), FormatStrength(s_python, 40),
                             FormatStrength(s_mysql, 50)>>

\* C28: for a required-skill list of at most 5 entries, top_terms and
\* skill_gaps together have as many entries as the required list, duplicates
\* included, and every required skill that is in strengths is in top_terms.
C28_Partition ==
    pc = "reasoned" /\ Len(job_skills) <= 5 =>
        /\ Len(reasons.top_terms) + Len(reasons.skill_gaps) = Len(job_skills)
        /\ \A i \in 1..Len(job_skills) :
              LET r == Lower(job_skills[i]) IN
              /\ Count(reasons.top_terms, r) +
                     Cardinality({k \in 1..Len(reasons.skill_gaps) :
                                     reasons.skill_gaps[k] \in
                                         {r} \cup {FormatGap(r, l) : l \in ReasonLevels}})
                 = Count([j \in 1..Len(job_skills) |-> Lower(job_skills[j])], r)
              /\ (\E l \in ReasonLevels : FormatStrength(r, l) \in Range(reasons.strengths))
                     => r \in Range(reasons.top_terms)

\* five required entries with duplicates: three land in top_terms (and are
\* strengths), two in skill_gaps
C28_Witness ==
    /\ pc = "reasoned"
    /\ job_skills = <<s_Python, s_sql, s_Python, s_sql, s_Python>>
    /\ candidate_skills = <<Entry(s_Python, 50)>>
    /\ reasons.top_terms = <<s_python, s_python, s_python>>
    /\ reasons.skill_gaps = <<s_sql, s_sql>>
    /\ Len(reasons.strengths) = 3

-----------------------------------------------------------------------------
(* JDParserService: the vocabularies *)

\* self.technical_skills, listed as the set literal is written
technical_skills == <<
    <<"p", "y", "t", "h", "o", "n">>,
    <<"j", "a", "v", "a">>,
    <<"j", "a", "v", "a", "s", "c", "r", "i", "p", "t">>,
    <<"t", "y", "p", "e", "s", "c", "r", "i", "p", "t">>,
    <<"c", "+", "+">>,
    <<"c", "#">>,
    <<"g", "o">>,
    <<"r", "u", "s", "t">>,
    <<"p", "h", "p">>,
    <<"r", "u", "b", "y">>,
    <<"s", "w", "i", "f", "t">>,
    <<"k", "o", "t", "l", "i", "n">>,
    <<"s", "c", "a", "l", "a">>,
    <<"r">>,
    <<"m", "a", "t", "l", "a", "b">>,
    <<"s", "q", "l">>,
    <<"h", "t", "m", "l">>,
    <<"c", "s", "s">>,
    <<"r", "e", "a", "c", "t">>,
    <<"a", "n", "g", "u", "l", "a", "r">>,
    <<"v", "u", "e">>,
    <<"n", "o", "d", "e", "j", "s">>,
    <<"e", "x", "p", "r", "e", "s", "s">>,
    <<"d", "j", "a", "n", "g", "o">>,
    <<"f", "l", "a", "s", "k">>,
    <<"f", "a", "s", "t", "a", "p", "i">>,
    <<"s", "p", "r", "i", "n", "g">>,
    <<"h", "i", "b", "e", "r", "n", "a", "t", "e">>,
    <<"t", "e", "n", "s", "o", "r", "f", "l", "o", "w">>,
    <<"p", "y", "t", "o", "r", "c", "h">>,
    <<"k", "e", "r", "a", "s">>,
    <<"s", "c", "i", "k", "i", "t", "-", "l", "e", "a", "r", "n">>,
    <<"p", "a", "n", "d", "a", "s">>,
    <<"n", "u", "m", "p", "y">>,
    <<"m", "a", "t", "p", "l", "o", "t", "l", "i", "b">>,
    <<"s", "e", "a", "b", "o", "r", "n">>,
    <<"m", "y", "s", "q", "l">>,
    <<"p", "o", "s", "t", "g", "r", "e", "s", "q", "l">>,
    <<"m", "o", "n", "g", "o", "d", "b">>,
    <<"r", "e", "d", "i", "s">>,
    <<"e", "l", "a", "s", "t", "i", "c", "s", "e", "a", "r", "c", "h">>,
    <<"c", "a", "s", "s", "a", "n", "d", "r", "a">>,
    <<"o", "r", "a", "c", "l", "e">>,
    <<"s", "q", "l", "i", "t", "e">>,
    <<"d", "y", "n", "a", "m", "o", "d", "b">>,
    <<"a", "w", "s">>,
    <<"a", "z", "u", "r", "e">>,
    <<"g", "c", "p">>,
    <<"d", "o", "c", "k", "e", "r">>,
    <<"k", "u", "b", "e", "r", "n", "e", "t", "e", "s">>,
    <<"j", "e", "n", "k", "i", "n", "s">>,
    <<"g", "i", "t", "l", "a", "b">>,
    <<"g", "i", "t", "h", "u", "b">>,
    <<"t", "e", "r", "r", "a", "f", "o", "r", "m">>,
    <<"a", "n", "s", "i", "b", "l", "e">>,
    <<"c", "h", "e", "f">>,
    <<"p", "u", "p", "p", "e", "t">>,
    <<"n", "g", "i", "n", "x">>,
    <<"a", "p", "a", "c", "h", "e">>,
    <<"g", "i", "t">>,
    <<"l", "i", "n", "u", "x">>,
    <<"u", "n", "i", "x">>,
    <<"b", "a", "s", "h">>,
    <<"p", "o", "w", "e", "r", "s", "h", "e", "l", "l">>,
    <<"v", "i", "m">>,
    <<"v", "s", "c", "o", "d", "e">>,
    <<"i", "n", "t", "e", "l", "l", "i", "j">>,
    <<"j", "i", "r", "a">>,
    <<"c", "o", "n", "f", "l", "u", "e", "n", "c", "e">>,
    <<"s", "l", "a", "c", "k">>,
    <<"t", "e", "a", "m", "s">>,
    <<"a", "g", "i", "l", "e">>,
    <<"s", "c", "r", "u", "m">>,
    <<"k", "a", "n", "b", "a", "n">>,
    <<"d", "e", "v", "o", "p", "s">>,
    <<"c", "i", "/", "c", "d">>,
    <<"t", "d", "d">>,
    <<"b", "d", "d">>,
    <<"h", "a", "d", "o", "o", "p">>,
    <<"s", "p", "a", "r", "k">>,
    <<"k", "a", "f", "k", "a">>,
    <<"a", "i", "r", "f", "l", "o", "w">>,
    <<"t", "a", "b", "l", "e", "a", "u">>,
    <<"p", "o", "w", "e", "r", "b", "i">>,
    <<"l", "o", "o", "k", "e", "r">>,
    <<"e", "t", "l">>,
    <<"d", "a", "t", "a", " ", "w", "a", "r", "e", "h", "o", "u", "s", "e">>,
    <<"m", "a", "c", "h", "i", "n", "e", " ", "l", "e", "a", "r", "n", "i", "n", "g">>,
    <<"d", "e", "e", "p", " ", "l", "e", "a", "r", "n", "i", "n", "g">>,
    <<"n", "l", "p">>,
    <<"i", "o", "s">>,
    <<"a", "n", "d", "r", "o", "i", "d">>,
    <<"r", "e", "a", "c", "t", " ", "n", "a", "t", "i", "v", "e">>,
    <<"f", "l", "u", "t", "t", "e", "r">>,
    <<"x", "a", "m", "a", "r", "i", "n">>,
    <<"c", "y", "b", "e", "r", "s", "e", "c", "u", "r", "i", "t", "y">>,
    <<"p", "e", "n", "e", "t", "r", "a", "t", "i", "o", "n", " ", "t", "e", "s", "t", "i", "n", "g">>,
    <<"o", "a", "u", "t", "h">>,
    <<"j", "w", "t">>,
    <<"s", "s", "l">>,
    <<"t", "l", "s">>
>>

\* self.soft_skills, listed as the set literal is written
soft_skills == <<
    <<"c", "o", "m", "m", "u", "n", "i", "c", "a", "t", "i", "o", "n">>,
    <<"l", "e", "a", "d", "e", "r", "s", "h", "i", "p">>,
    <<"t", "e", "a", "m", "w", "o", "r", "k">>,
    <<"p", "r", "o", "b", "l", "e", "m", " ", "s", "o", "l", "v", "i", "n", "g">>,
    <<"c", "r", "i", "t", "i", "c", "a", "l", " ", "t", "h", "i", "n", "k", "i", "n", "g">>,
    <<"c", "r", "e", "a", "t", "i", "v", "i", "t", "y">>,
    <<"a", "d", "a", "p", "t", "a", "b", "i", "l", "i", "t", "y">>,
    <<"t", "i", "m", "e", " ", "m", "a", "n", "a", "g", "e", "m", "e", "n", "t">>,
    <<"p", "r", "o", "j", "e", "c", "t", " ", "m", "a", "n", "a", "g", "e", "m", "e", "n", "t">>,
    <<"a", "n", "a", "l", "y", "t", "i", "c", "a", "l", " ", "t", "h", "i", "n", "k", "i", "n", "g">>,
    <<"a", "t", "t", "e", "n", "t", "i", "o", "n", " ", "t", "o", " ", "d", "e", "t", "a", "i", "l">>,
    <<"c", "o", "l", "l", "a", "b", "o", "r", "a", "t", "i", "o", "n">>,
    <<"m", "e", "n", "t", "o", "r", "i", "n", "g">>,
    <<"p", "r", "e", "s", "e", "n", "t", "a", "t", "i", "o", "n">>,
    <<"n", "e", "g", "o", "t", "i", "a", "t", "i", "o", "n">>,
    <<"c", "u", "s", "t", "o", "m", "e", "r", " ", "s", "e", "r", "v", "i", "c", "e">>,
    <<"e", "m", "o", "t", "i", "o", "n", "a", "l", " ", "i", "n", "t", "e", "l", "l", "i", "g", "e", "n", "c", "e">>
>>

\* the members of SeniorityLevel, in definition order
SeniorityLevel == <<"junior", "mid", "senior", "lead", "principal">>

\* self.seniority_keywords
seniority_keywords ==
    [level \in {"junior", "mid", "senior", "lead", "principal"} |->
        CASE level = "junior" -> <<<<"j", "u", "n", "i", "o", "r">>, <<"e", "n", "t", "r", "y", " ", "l", "e", "v", "e", "l">>, <<"g", "r", "a", "d", "u", "a", "t", "e">>, <<"i", "n", "t", "e", "r", "n">>, <<"0", "-", "2", " ", "y", "e", "a", "r", "s">>, <<"b", "e", "g", "i", "n", "n", "e", "r">>>>
          [] level = "mid" -> <<<<"m", "i", "d", " ", "l", "e", "v", "e", "l">>, <<"i", "n", "t", "e", "r", "m", "e", "d", "i", "a", "t", "e">>, <<"2", "-", "5", " ", "y", "e", "a", "r", "s">>, <<"3", "-", "5", " ", "y", "e", "a", "r", "s">>, <<"e", "x", "p", "e", "r", "i", "e", "n", "c", "e", "d">>>>
          [] level = "senior" -> <<<<"s", "e", "n", "i", "o", "r">>, <<"5", "+", " ", "y", "e", "a", "r", "s">>, <<"5", "-", "8", " ", "y", "e", "a", "r", "s">>, <<"e", "x", "p", "e", "r", "t">>, <<"a", "d", "v", "a", "n", "c", "e", "d">>>>
          [] level = "lead" -> <<<<"l", "e", "a", "d">>, <<"t", "e", "a", "m", " ", "l", "e", "a", "d">>, <<"t", "e", "c", "h", " ", "l", "e", "a", "d">>, <<"t", "e", "c", "h", "n", "i", "c", "a", "l", " ", "l", "e", "a", "d">>, <<"m", "a", "n", "a", "g", "e", "r">>>>
          [] level = "principal" -> <<<<"p", "r", "i", "n", "c", "i", "p", "a", "l">>, <<"a", "r", "c", "h", "i", "t", "e", "c", "t">>, <<"s", "t", "a", "f", "f">>, <<"d", "i", "s", "t", "i", "n", "g", "u", "i", "s", "h", "e", "d">>, <<"1", "0", "+", " ", "y", "e", "a", "r", "s">>>>]

-----------------------------------------------------------------------------
(* JDParserService: whole-word matching *)

WordChars ==
    {"a", "b", "c", "d", "e", "f", "g", "h", "i", "j", "k", "l", "m",
     "n", "o", "p", "q", "r", "s", "t", "u", "v", "w", "x", "y", "z",
     "A", "B", "C", "D", "E", "F", "G", "H", "I", "J", "K", "L", "M",
     "N", "O", "P", "Q", "R", "S", "T", "U", "V", "W", "X", "Y", "Z",
     "0", "1", "2", "3", "4", "5", "6", "7", "8", "9", "_"}

\* \b between text[i] and text[i+1]: a word character on exactly one side
WordBoundary(text, i) ==
    (i >= 1 /\ text[i] \in WordChars) # (i < Len(text) /\ text[i + 1] \in WordChars)

\* the pattern \b term \b matches the characters i+1 .. i+Len(term) of text
MatchesAt(text, term, i) ==
    /\ text[i + 1] = term[1]
    /\ SubSeq(text, i + 1, i + Len(term)) = term
    /\ WordBoundary(text, i)
    /\ WordBoundary(text, i + Len(term))

\* the number of matches a left-to-right scan keeps: a match that starts
\* inside the previous one is skipped
RECURSIVE CountFrom(_, _, _)
CountFrom(starts, width, from) ==
    LET rest == {i \in starts : i >= from} IN
    IF rest = {} THEN 0
    ELSE LET first == CHOOSE i \in rest : \A j \in rest : i <= j
         IN  1 + CountFrom(starts, width, first + width)

\* len(re.findall(r'\b' + re.escape(term) + r'\b', text))
FindAll(text, term) ==
    CountFrom({i \in 0..(Len(text) - Len(term)) : MatchesAt(text, term, i)},
              Len(term), 0)

\* text.find(sub)
Find(text, sub) ==
    IF IsSubstring(sub, text)
    THEN CHOOSE i \in 0..(Len(text) - Len(sub)) :
             /\ SubSeq(text, i + 1, i + Len(sub)) = sub
             /\ \A j \in 0..(i - 1) : SubSeq(text, j + 1, j + Len(sub)) # sub
    ELSE 0 - 1

-----------------------------------------------------------------------------
(* JDParserService._extract_technical_skills *)

s_requirements == <<"r", "e", "q", "u", "i", "r", "e", "m", "e", "n", "t", "s">>
s_required == <<"r", "e", "q", "u", "i", "r", "e", "d">>
s_must_have == <<"m", "u", "s", "t", " ", "h", "a", "v", "e">>

\* The base weight without the offset of 0.1.
BaseWeightLinear(frequency) ==
    LET weight == Norm([num |-> frequency, den |-> 10])
    IN  IF weight.num > weight.den THEN [num |-> 1, den |-> 1] ELSE weight

\* min(0.1 + (frequency * 0.1), 1.0)
BaseWeight(frequency) ==
    LET weight == Norm([num |-> 1 + frequency, den |-> 10])
    IN  IF weight.num > weight.den THEN [num |-> 1, den |-> 1] ELSE weight

\* The boosted weight without the cap at 1.0.
BoostedWeightUncapped(weight) == Norm([num |-> 3 * weight.num, den |-> 2 * weight.den])

\* min(weight * 1.5, 1.0)
BoostedWeight(weight) ==
    LET boosted == Norm([num |-> 3 * weight.num, den |-> 2 * weight.den])
    IN  IF boosted.num > boosted.den THEN [num |-> 1, den |-> 1] ELSE boosted

\* any(section in jd_text for section in ['requirements', 'required', 'must have'])
HasSection(text) ==
    \E section \in {s_requirements, s_required, s_must_have} : IsSubstring(section, text)

\* the condition of the inner if: the conditional expression
\*   (skill in jd_text[jd_text.find('requirements'):]) if 'requirements' in jd_text else jd_text
InSection(skill, text) ==
    IF IsSubstring(s_requirements, text)
    THEN IsSubstring(skill, SubSeq(text, Find(text, s_requirements) + 1, Len(text)))
    ELSE text # <<>>

\* the weight of a skill found frequency times, before rounding
SkillWeight(skill, frequency, text) ==
    IF HasSection(text) /\ InSection(skill, text)
    THEN BoostedWeight(BaseWeight(frequency))
    ELSE BaseWeight(frequency)

SkillWeightMin == 0
SkillWeightMax == 1

\* Skill(name=..., weight=...) validates: weights are in hundredths
SkillValid(skill) ==
    SkillWeightMin * 100 <= skill.weight /\ skill.weight <= SkillWeightMax * 100

Reverse(seq) == [i \in 1..Len(seq) |-> seq[Len(seq) + 1 - i]]

\* an iteration order of a set of strings: the order is not fixed by the
\* language, two orders stand for it
IterationOrder(listing, order) ==
    IF order = "forward" THEN listing ELSE Reverse(listing)

\* for skill in self.technical_skills: ... found_skills.append(Skill(...))
FoundSkills(skills, text) ==
    LET Found(skill) == FindAll(text, Lower(skill)) > 0
        kept == SelectSeq(skills, Found)
    IN  [i \in 1..Len(kept) |->
            [name |-> kept[i],
             weight |-> Round2(SkillWeight(kept[i], FindAll(text, Lower(kept[i])), text))]]

\* x goes behind the entries that weigh as much or more
InsertByWeight(sorted, x) ==
    LET n == Cardinality({i \in 1..Len(sorted) : sorted[i].weight >= x.weight})
    IN  SubSeq(sorted, 1, n) \o <<x>> \o SubSeq(sorted, n + 1, Len(sorted))

RECURSIVE SortByWeightFrom(_, _, _)
SortByWeightFrom(seq, i, sorted) ==
    IF i > Len(seq) THEN sorted
    ELSE SortByWeightFrom(seq, i + 1, InsertByWeight(sorted, seq[i]))

\* found_skills.sort(key=lambda x: x.weight, reverse=True): stable
SortByWeight(seq) == SortByWeightFrom(seq, 1, <<>>)

\* The first 20 found skills, not sorted.
TopSkillsUnsorted(found_skills) == Take(found_skills, 20)

\* found_skills.sort(...); return found_skills[:20]
TopSkills(found_skills) == Take(SortByWeight(found_skills), 20)

\* _extract_technical_skills(jd_text): the list, and whether building a Skill
\* raised a validation error
ExtractTechnicalSkills(text, order) ==
    LET found_skills == FoundSkills(IterationOrder(technical_skills, order), text)
    IN  IF \E i \in 1..Len(found_skills) : ~SkillValid(found_skills[i])
        THEN [raised |-> TRUE, skills |-> <<>>]
        ELSE [raised |-> FALSE, skills |-> TopSkills(found_skills)]

-----------------------------------------------------------------------------
(* JDParserService._extract_soft_skills *)

ExtractSoftSkills(text, order) ==
    LET Present(skill) == FindAll(text, Lower(skill)) > 0
    IN  SelectSeq(IterationOrder(soft_skills, order), Present)

-----------------------------------------------------------------------------
(* JDParserService._determine_seniority *)

RECURSIVE SumCounts(_, _, _)
SumCounts(keywords, text, i) ==
    IF i > Len(keywords) THEN 0
    ELSE FindAll(text, Lower(keywords[i])) + SumCounts(keywords, text, i + 1)

\* seniority_scores[level] once the loops are done
SeniorityScore(level, text) == SumCounts(seniority_keywords[level], text, 1)

DefaultSeniority == "mid"

\* The level with the highest score, the last such level on a tie.
DetermineSeniorityLast(text) ==
    LET score == [i \in 1..Len(SeniorityLevel) |-> SeniorityScore(SeniorityLevel[i], text)]
        best == CHOOSE i \in 1..Len(score) :
                    /\ \A j \in 1..Len(score) : score[j] <= score[i]
                    /\ \A j \in (i + 1)..Len(score) : score[j] < score[i]
    IN  IF \A i \in 1..Len(score) : score[i] = 0 THEN DefaultSeniority
        ELSE SeniorityLevel[best]

\* max(seniority_scores.items(), key=lambda x: x[1])[0]: max keeps the first
\* item with the highest score, items come in the order of SeniorityLevel
DetermineSeniority(text) ==
    LET score == [i \in 1..Len(SeniorityLevel) |-> SeniorityScore(SeniorityLevel[i], text)]
        best == CHOOSE i \in 1..Len(score) :
                    /\ \A j \in 1..Len(score) : score[j] <= score[i]
                    /\ \A j \in 1..(i - 1) : score[j] < score[i]
    IN  IF \A i \in 1..Len(score) : score[i] = 0 THEN DefaultSeniority
        ELSE SeniorityLevel[best]

-----------------------------------------------------------------------------
(* JDParserService.parse_jd *)

\* parse_jd(request): the response, or raised when an exception is re-raised
ParseJd(job_description, order) ==
    LET text == Lower(job_description)
        technical == ExtractTechnicalSkills(text, order)
    IN  IF technical.raised
        THEN [raised |-> TRUE, skills |-> <<>>, soft_skills |-> <<>>,
              seniority_hint |-> None]
        ELSE [raised |-> FALSE,
              skills |-> technical.skills,
              soft_skills |-> ExtractSoftSkills(text, order),
              seniority_hint |-> DetermineSeniority(text)]

-----------------------------------------------------------------------------
(* The parser specification: parse_jd applied to a job description *)

MaxSegs == 2       \* most segments of a job description

seg_senior_python == <<"S", "e", "n", "i", "o", "r", " ", "P", "y", "t", "h", "o", "n">>
seg_junior_r == <<"j", "u", "n", "i", "o", "r", " ", "r">>
seg_requirements == <<"R", "e", "q", "u", "i", "r", "e", "m", "e", "n", "t", "s", ":">>
seg_must_have_python6 == <<"m", "u", "s", "t", " ", "h", "a", "v", "e", " ", "p", "y", "t", "h", "o", "n", " ", "p", "y", "t", "h", "o", "n", " ", "p", "y", "t", "h", "o", "n", " ", "p", "y", "t", "h", "o", "n", " ", "p", "y", "t", "h", "o", "n", " ", "p", "y", "t", "h", "o", "n">>
seg_python5 == <<"p", "y", "t", "h", "o", "n", " ", "p", "y", "t", "h", "o", "n", " ", "p", "y", "t", "h", "o", "n", " ", "p", "y", "t", "h", "o", "n", " ", "p", "y", "t", "h", "o", "n">>
seg_many == <<"r", " ", "g", "o", " ", "p", "h", "p", " ", "c", "s", "s", " ", "s", "q", "l", " ", "v", "u", "e", " ", "a", "w", "s", " ", "g", "c", "p", " ", "g", "i", "t", " ", "v", "i", "m", " ", "t", "d", "d", " ", "b", "d", "d", " ", "e", "t", "l", " ", "n", "l", "p", " ", "i", "o", "s", " ", "j", "w", "t", " ", "s", "s", "l", " ", "t", "l", "s", " ", "j", "a", "v", "a", " ", "r", "u", "s", "t", " ", "r", "u", "b", "y">>
seg_team_lead == <<"t", "e", "a", "m", " ", "l", "e", "a", "d", " ", "c", "o", "m", "m", "u", "n", "i", "c", "a", "t", "i", "o", "n">>
seg_hello == <<"h", "e", "l", "l", "o", " ", "w", "o", "r", "l", "d">>

Segments == {seg_senior_python, seg_junior_r, seg_requirements, seg_must_have_python6,
             seg_python5, seg_many, seg_team_lead, seg_hello}

\* the segments joined by single spaces
RECURSIVE Join(_)
Join(segs) ==
    IF Len(segs) = 0 THEN <<>>
    ELSE IF Len(segs) = 1 THEN segs[1]
    ELSE segs[1] \o <<" ">> \o Join(Tail(segs))

JobDescriptions == {Join(segs) : segs \in SeqsUpTo(Segments, MaxSegs)}

InitJD ==
    /\ via = "parse"
    /\ pc = "received"
    /\ request = NoRequest
    /\ job_skills = None
    /\ invoked = FALSE
    /\ status = 0
    /\ response = None
    /\ candidate_skills = <<>>
    /\ skill_score = None
    /\ partial = None
    /\ NoRecency /\ NoReasons /\ NoExt
    /\ jd_text \in JobDescriptions
    /\ set_order \in {"forward", "reverse"}
    /\ parsed = None

\* jd_parser.parse_jd(request)
CallParseJd ==
    /\ via = "parse" /\ pc = "received"
    /\ parsed' = ParseJd(jd_text, set_order)
    /\ pc' = "parsed"
    /\ UNCHANGED <<via, request, job_skills, invoked, status, response,
                   candidate_skills, skill_score, partial, recencyVars, reasonVars,
                   jd_text, set_order, extVars>>

NextJD == CallParseJd

JDSpec == InitJD /\ [][NextJD]_vars

-----------------------------------------------------------------------------
(* The session specification: the module-level instances jd_parser and       *)
(* candidate_matcher of main.py serve a sequence of parse_jd and             *)
(* match_candidates calls. CandidateMatcherService has no attribute.         *)

\* JDParserService(): the three tables of __init__
FreshParser ==
    [technical_skills |-> technical_skills,
     soft_skills |-> soft_skills,
     seniority_keywords |-> seniority_keywords]

\* parse_jd as run by an instance: every table is read from the instance
ParseJdOn(parser, job_description, order) ==
    LET text == Lower(job_description)
        found_skills == FoundSkills(IterationOrder(parser.technical_skills, order), text)
        Present(skill) == FindAll(text, Lower(skill)) > 0
        score == [i \in 1..Len(SeniorityLevel) |->
                     SumCounts(parser.seniority_keywords[SeniorityLevel[i]], text, 1)]
        best == CHOOSE i \in 1..Len(score) :
                    /\ \A j \in 1..Len(score) : score[j] <= score[i]
                    /\ \A j \in 1..(i - 1) : score[j] < score[i]
    IN  IF \E i \in 1..Len(found_skills) : ~SkillValid(found_skills[i])
        THEN [raised |-> TRUE, skills |-> <<>>, soft_skills |-> <<>>,
              seniority_hint |-> None]
        ELSE [raised |-> FALSE,
              skills |-> TopSkills(found_skills),
              soft_skills |-> SelectSeq(IterationOrder(parser.soft_skills, order), Present),
              seniority_hint |-> IF \A i \in 1..Len(score) : score[i] = 0
                                 THEN DefaultSeniority ELSE SeniorityLevel[best]]

\* A parser that forgets the technical terms it has just reported.
ParserAfterParseForgetting(parser, job_description) ==
    LET Absent(skill) == FindAll(Lower(job_description), Lower(skill)) = 0
    IN  [parser EXCEPT !.technical_skills = SelectSeq(parser.technical_skills, Absent)]

\* the instance after parse_jd: the tables are only iterated
ParserAfterParse(parser, job_description) == parser

\* the JDParseRequest after parse_jd: job_description.lower() builds a new string
RequestAfterParse(req) == req

\* the MatchRequest after match_candidates: the candidates are only read, the
\* sort works on the new list matches
RequestAfterMatch(req) == req

SessionTexts == {seg_senior_python, seg_team_lead, seg_hello}

SessionRequests ==
    {[job_id |-> id, candidates |-> WithIds(<<c>>), top_k |-> 1,
      weights |-> DefaultWeights] :
        id \in {"job-1"},
        c \in {x \in CandidatePool : x.eval_score \in {0, 50000}}}

InitSession ==
    /\ via = "session"
    /\ pc = "serving"
    /\ request = NoRequest
    /\ job_skills = None
    /\ invoked = FALSE
    /\ status = 0
    /\ response = None
    /\ candidate_skills = <<>>
    /\ skill_score = None
    /\ partial = None
    /\ jd_text = <<>> /\ parsed = None
    /\ set_order \in {"forward", "reverse"}
    /\ jd_parser = FreshParser
    /\ history = <<>>
    /\ NoRecency /\ NoReasons /\ NoPool /\ NoAnomaly /\ NoGrade /\ NoLead

\* POST /api/ai/jd/parse: jd_parser.parse_jd(request)
SessionParseJd ==
    /\ via = "session" /\ Len(history) < MaxCalls
    /\ \E text \in SessionTexts :
          /\ history' = Append(history,
                 [call |-> "parse_jd",
                  request |-> [job_description |-> text],
                  request_after |-> RequestAfterParse([job_description |-> text]),
                  result |-> ParseJdOn(jd_parser, text, set_order)])
          /\ jd_parser' = ParserAfterParse(jd_parser, text)
    /\ UNCHANGED <<via, pc, request, job_skills, invoked, status, response,
                   candidate_skills, skill_score, partial,
                   recencyVars, reasonVars, jdVars, poolVars, anomalyVars,
                   gradeVars, leadVars>>

\* POST /api/ai/jd/match: candidate_matcher.match_candidates(request)
SessionMatchCandidates ==
    /\ via = "session" /\ Len(history) < MaxCalls
    /\ \E req \in SessionRequests :
          history' = Append(history,
                 [call |-> "match_candidates",
                  request |-> req,
                  request_after |-> RequestAfterMatch(req),
                  result |-> MatchCandidates(req, None)])
    /\ UNCHANGED <<via, pc, request, job_skills, invoked, status, response,
                   candidate_skills, skill_score, partial,
                   recencyVars, reasonVars, jdVars, poolVars, jd_parser, anomalyVars,
                   gradeVars, leadVars>>

NextSession == SessionParseJd \/ SessionMatchCandidates

SessionSpec == InitSession /\ [][NextSession]_vars

\* C23: after any sequence of parse_jd and match_candidates calls the three
\* tables of the parser are the ones of a new JDParserService, every request
\* object is as it was passed in, and every call has returned what the same
\* call returns on new service instances.
C23_NoCrossRequestState ==
    via = "session" =>
        /\ jd_parser.technical_skills = technical_skills
        /\ jd_parser.soft_skills = soft_skills
        /\ jd_parser.seniority_keywords = seniority_keywords
        /\ \A k \in 1..Len(history) :
              /\ history[k].request_after = history[k].request
              /\ history[k].call = "parse_jd" =>
                    history[k].result =
                        ParseJd(history[k].request.job_description, set_order)
              /\ history[k].call = "match_candidates" =>
                    history[k].result = MatchCandidates(history[k].request, None)
              /\ \A j \in 1..Len(history) :
                    history[j].call = history[k].call
                        /\ history[j].request = history[k].request
                    => history[j].result = history[k].result

\* the same description parsed before and after two other calls
C23_Witness ==
    /\ via = "session" /\ Len(history) = 3
    /\ history[1].call = "parse_jd" /\ history[3].call = "parse_jd"
    /\ history[2].call = "match_candidates"
    /\ history[1].request.job_description = seg_senior_python
    /\ history[3].request = history[1].request
    /\ Len(history[1].result.skills) = 1
    /\ history[3].result = history[1].result
    /\ history[3].result.seniority_hint = "senior"

-----------------------------------------------------------------------------
(* ai-ops: AnomalyDetector.detect_anomalies. Values are integers and the     *)
(* threshold is in tenths; the z-score test is decided exactly, without the  *)
(* square root: with n values of sum S and sum of squares Q, the mean is S/n *)
(* and the sample variance (n*Q - S*S) / (n*(n-1)).                          *)

RECURSIVE SumInts(_, _)
SumInts(seq, i) == IF i > Len(seq) THEN 0 ELSE seq[i] + SumInts(seq, i + 1)

\* values = [point.value for point in request.time_series]
PointValues(time_series) == [i \in 1..Len(time_series) |-> time_series[i].value]

Squares(values) == [i \in 1..Len(values) |-> values[i] * values[i]]

\* n * (n - 1) times the sample variance of statistics.stdev
ScaledVariance(values) ==
    Len(values) * SumInts(Squares(values), 1) - SumInts(values, 1) * SumInts(values, 1)

\* Too few points only below two of them.
InsufficientDataBelowTwo(values) == Len(values) < 2

\* if len(values) < 3
InsufficientData(values) == Len(values) < 3

\* std_val == 0
ZeroDeviation(values) == ScaledVariance(values) = 0

\* abs((value - mean_val) / std_val) > request.threshold
ExceedsThreshold(values, value, threshold) ==
    LET n == Len(values)
        d == n * value - SumInts(values, 1)
    IN  100 * d * d * (n - 1) > threshold * threshold * n * ScaledVariance(values)

\* point.metric_name or request.metric_type or "unknown_metric"
MetricOf(point, req) ==
    IF point.metric_name # None THEN point.metric_name
    ELSE IF req.metric_type # None THEN req.metric_type
    ELSE "unknown_metric"

\* the AnomalyPoint of a point, without zscore and expected_range
AnomalyPointOf(point, req) ==
    [timestamp |-> point.timestamp, metric |-> MetricOf(point, req),
     value |-> point.value]

\* detect_anomalies(request): the response without its statistics
DetectAnomalies(req) ==
    LET values == PointValues(req.time_series)
        Anomalous(point) == ExceedsThreshold(values, point.value, req.threshold)
        found == SelectSeq(req.time_series, Anomalous)
        anomalies == IF InsufficientData(values) \/ ZeroDeviation(values) THEN <<>>
                     ELSE [i \in 1..Len(found) |-> AnomalyPointOf(found[i], req)]
    IN  [anomalies |-> anomalies,
         total_points |-> Len(values),
         anomaly_count |-> Len(anomalies),
         threshold_used |-> req.threshold]

PointValueSet == {0, 1, 10}
MetricNames == {None, "cpu"}
Thresholds == {1, 10, 15, 20}

WithTimestamps(points) ==
    [i \in 1..Len(points) |->
        [timestamp |-> i, value |-> points[i].value,
         metric_name |-> points[i].metric_name]]

AnomalyRequests ==
    {[time_series |-> WithTimestamps(ps), threshold |-> t, metric_type |-> m] :
        ps \in SeqsUpTo({[value |-> v, metric_name |-> n] :
                            v \in PointValueSet, n \in MetricNames}, MaxPoints),
        t \in Thresholds, m \in {None, "error_rate"}}

InitAnomaly ==
    /\ via = "anomaly"
    /\ pc = "received"
    /\ request = NoRequest
    /\ job_skills = None
    /\ invoked = FALSE
    /\ status = 0
    /\ response = None
    /\ candidate_skills = <<>>
    /\ skill_score = None
    /\ partial = None
    /\ anomaly_request \in AnomalyRequests
    /\ anomaly_response = None
    /\ NoRecency /\ NoReasons /\ NoParse /\ NoPool /\ NoSession /\ NoGrade /\ NoLead

\* anomaly_detector.detect_anomalies(request)
CallDetectAnomalies ==
    /\ via = "anomaly" /\ pc = "received"
    /\ anomaly_response' = DetectAnomalies(anomaly_request)
    /\ pc' = "detected"
    /\ UNCHANGED <<via, request, job_skills, invoked, status, response,
                   candidate_skills, skill_score, partial,
                   recencyVars, reasonVars, jdVars, poolVars, sessionVars,
                   anomaly_request, gradeVars, leadVars>>

NextAnomaly == CallDetectAnomalies

AnomalySpec == InitAnomaly /\ [][NextAnomaly]_vars

\* C24: total_points is the number of input points and anomaly_count the
\* length of anomalies; a series of fewer than 3 points, or of equal values,
\* has no anomaly.
C24_Counts ==
    pc = "detected" =>
        /\ anomaly_response.total_points = Len(anomaly_request.time_series)
        /\ anomaly_response.anomaly_count = Len(anomaly_response.anomalies)
        /\ anomaly_response.anomaly_count <= anomaly_response.total_points
        /\ Len(anomaly_request.time_series) < 3
              => anomaly_response.anomalies = <<>> /\ anomaly_response.anomaly_count = 0
        /\ (\A i, j \in 1..Len(anomaly_request.time_series) :
                anomaly_request.time_series[i].value = anomaly_request.time_series[j].value)
              => anomaly_response.anomalies = <<>> /\ anomaly_response.anomaly_count = 0

\* the spike of 0, 0, 0, 10 is reported at the threshold 1.0
C24_Witness ==
    /\ pc = "detected"
    /\ PointValues(anomaly_request.time_series) = <<0, 0, 0, 10>>
    /\ anomaly_request.threshold = 10
    /\ anomaly_response.total_points = 4
    /\ anomaly_response.anomaly_count = 1
    /\ anomaly_response.anomalies[1].timestamp = 4

-----------------------------------------------------------------------------
(* ai-ops: CodeGrader.grade_code and DesignGrader.grade_design. Scores are   *)
(* in tenths of a point. The text analysis of the content is not modelled:   *)
(* what it finds, or that it raises, is drawn with the request.              *)

\* the outcome of an analysis: it raises, or it returns what it found
Raised(nothing) == [raises |-> TRUE, found |-> nothing]
Found(results) == [raises |-> FALSE, found |-> results]

\* truth value of an Optional[str]: None and the empty string are false
Truthy(v) == v # None /\ v # ""

GradingScoreMin == 0
GradingScoreMax == 100

\* GradingResponse(...) validates ai_score (ge=0, le=100)
GradingResponseValid(r) ==
    GradingScoreMin * 10 <= r.ai_score /\ r.ai_score <= GradingScoreMax * 10

Reason(category, impact) == [category |-> category, impact |-> impact]

\* the response of the checks on the content
CodeInputError ==
    [ai_score |-> 0, reasons |-> <<Reason("input_error", "negative")>>,
     analysis_summary |-> "Failed to retrieve code content"]

DesignInputError(summary) ==
    [ai_score |-> 0, reasons |-> <<Reason("input_error", "negative")>>,
     analysis_summary |-> summary]

\* the response built by except Exception
AnalysisError ==
    [ai_score |-> 0, reasons |-> <<Reason("analysis_error", "negative")>>,
     analysis_summary |-> "Analysis failed due to error"]

\* A score passed on as it is.
ClampScoreNot(score) == score

\* max(0.0, min(100.0, score))
ClampScore(score) ==
    IF score > GradingScoreMax * 10 THEN GradingScoreMax * 10
    ELSE IF score < GradingScoreMin * 10 THEN GradingScoreMin * 10
    ELSE score

\* self.scoring_rules[rule]['score'], of the rules _calculate_score reads
scoring_rules ==
    [docstring_present |-> 10, type_hints_used |-> 15, proper_naming |-> 10,
     error_handling |-> 12, code_comments |-> 8]

\* _get_code_content(request): the content, a stub for a repository or a zip
\* file, or None
GetCodeContent(req) ==
    IF Truthy(req.code_content) THEN req.code_content
    ELSE IF Truthy(req.repo_url) THEN "def calculate_fibonacci(n): ..."
    ELSE IF Truthy(req.code_zip) THEN "import os ..."
    ELSE None

\* _calculate_score(analysis): the score and the reasons
CalculateScore(analysis) ==
    LET Bonus(flag, rule) == IF flag THEN scoring_rules[rule] ELSE 0
        Positive(flag, category) ==
            IF flag THEN <<Reason(category, "positive")>> ELSE <<>>
        Negative(flag, category) ==
            IF flag THEN <<Reason(category, "negative")>> ELSE <<>>
        complexity_penalty ==
            IF analysis.cyclomatic_complexity > 10
            THEN (analysis.cyclomatic_complexity - 10) * 2 ELSE 0
        base_score ==
            60 + Bonus(analysis.has_docstrings, "docstring_present")
               + Bonus(analysis.has_type_hints, "type_hints_used")
               + Bonus(analysis.proper_naming, "proper_naming")
               + Bonus(analysis.error_handling, "error_handling")
               + Bonus(analysis.has_comments, "code_comments")
               - analysis.magic_numbers * 3
               - analysis.long_functions * 5
               - complexity_penalty
               - analysis.security_issues * 20
    IN  [score |-> base_score * 10,
         reasons |-> Positive(analysis.has_docstrings, "documentation")
                     \o Positive(analysis.has_type_hints, "best_practices")
                     \o Positive(analysis.proper_naming, "readability")
                     \o Positive(analysis.error_handling, "robustness")
                     \o Positive(analysis.has_comments, "documentation")
                     \o Negative(analysis.magic_numbers > 0, "maintainability")
                     \o Negative(analysis.long_functions > 0, "complexity")
                     \o Negative(analysis.cyclomatic_complexity > 10, "complexity")
                     \o Negative(analysis.security_issues > 0, "security")]

\* the body of the try of both graders once the score is known: a response
\* that does not validate raises inside the try
BuildResponse(scored, summary) ==
    LET built == [ai_score |-> ClampScore(scored.score), reasons |-> scored.reasons,
                  analysis_summary |-> summary]
    IN  IF GradingResponseValid(built) THEN built ELSE AnalysisError

\* grade_code(request); analysis is the outcome of _analyze_code
GradeCode(req, analysis) ==
    IF ~(Truthy(req.repo_url) \/ Truthy(req.code_zip) \/ Truthy(req.code_content))
    THEN CodeInputError
    ELSE IF ~Truthy(GetCodeContent(req)) THEN CodeInputError
    ELSE IF analysis.raises THEN AnalysisError
    ELSE BuildResponse(CalculateScore(analysis.found), "summary")

\* self.design_criteria: weight and max_score of each criterion, in order
design_criteria ==
    << [name |-> "alignment", weight |-> 20, max_score |-> 20],
       [name |-> "contrast", weight |-> 15, max_score |-> 15],
       [name |-> "consistency", weight |-> 25, max_score |-> 25],
       [name |-> "typography", weight |-> 15, max_score |-> 15],
       [name |-> "color_harmony", weight |-> 10, max_score |-> 10],
       [name |-> "spacing", weight |-> 10, max_score |-> 10],
       [name |-> "accessibility", weight |-> 5, max_score |-> 5] >>

\* _calculate_design_score(analysis): criterion scores are in tenths
CalculateDesignScore(analysis) ==
    LET Weighted(i) ==
            (analysis[i] * design_criteria[i].weight) \div design_criteria[i].max_score
        Impact(i) ==
            IF analysis[i] * 10 >= design_criteria[i].max_score * 10 * 8 THEN "positive"
            ELSE IF analysis[i] * 10 >= design_criteria[i].max_score * 10 * 6 THEN "neutral"
            ELSE "negative"
    IN  [score |-> SumInts([i \in 1..Len(design_criteria) |-> Weighted(i)], 1),
         reasons |-> [i \in 1..Len(design_criteria) |->
                         Reason(design_criteria[i].name, Impact(i))]]

\* grade_design(request); analysis is the outcome of _analyze_design.
\* _get_design_data returns a non-empty dict for every content.
GradeDesign(req, analysis) ==
    IF ~(Truthy(req.file_url) \/ Truthy(req.design_content))
    THEN DesignInputError("No design content to analyze")
    ELSE IF analysis.raises THEN AnalysisError
    ELSE BuildResponse(CalculateDesignScore(analysis.found), "summary")

CodeGradingRequests ==
    {[kind |-> "code", repo_url |-> u, code_zip |-> z, code_content |-> c] :
        u \in {None, "", "https://github.com/user/repo"},
        z \in {None, "UEsDBA=="},
        c \in {None, "", "x = 1"}}

DesignGradingRequests ==
    {[kind |-> "design", file_url |-> u, design_content |-> c] :
        u \in {None, "", "https://example.com/design.png"},
        c \in {None, "", "color: red"}}

\* what _analyze_code can find, with the counts _calculate_score uses
CodeFindings ==
    [has_docstrings : BOOLEAN, has_type_hints : BOOLEAN, proper_naming : BOOLEAN,
     error_handling : BOOLEAN, has_comments : BOOLEAN,
     magic_numbers : {0, 2}, long_functions : {0, 1},
     cyclomatic_complexity : {1, 12}, security_issues : {0, 1, 4}]

NoCodeFindings ==
    [has_docstrings |-> FALSE, has_type_hints |-> FALSE, proper_naming |-> FALSE,
     error_handling |-> FALSE, has_comments |-> FALSE,
     magic_numbers |-> 0, long_functions |-> 0,
     cyclomatic_complexity |-> 1, security_issues |-> 0]

CodeAnalyses == {Found(f) : f \in CodeFindings} \cup {Raised(NoCodeFindings)}

\* what _analyze_design can find: every criterion score lies between 0 and the
\* max_score of the criterion, and varies with a random term seeded by hash()
DesignFindings ==
    {<<a, c, k, 150, 100, 100, x>> :
        a \in {0, 150, 200}, c \in {0, 150}, k \in {0, 250}, x \in {0, 50}}

DesignAnalyses ==
    {Found(f) : f \in DesignFindings} \cup {Raised(<<0, 0, 0, 0, 0, 0, 0>>)}

InitGrade ==
    /\ via = "grade"
    /\ pc = "received"
    /\ request = NoRequest
    /\ job_skills = None
    /\ invoked = FALSE
    /\ status = 0
    /\ response = None
    /\ candidate_skills = <<>>
    /\ skill_score = None
    /\ partial = None
    /\ \/ grade_request \in CodeGradingRequests
          /\ grade_analysis \in CodeAnalyses
       \/ grade_request \in DesignGradingRequests
          /\ grade_analysis \in DesignAnalyses
    /\ grade_response = None
    /\ NoRecency /\ NoReasons /\ NoParse /\ NoPool /\ NoSession /\ NoAnomaly /\ NoLead

\* code_grader.grade_code(request)
CallGradeCode ==
    /\ via = "grade" /\ pc = "received" /\ grade_request.kind = "code"
    /\ grade_response' = GradeCode(grade_request, grade_analysis)
    /\ pc' = "graded"
    /\ UNCHANGED <<via, request, job_skills, invoked, status, response,
                   candidate_skills, skill_score, partial,
                   recencyVars, reasonVars, jdVars, poolVars, sessionVars,
                   anomalyVars, grade_request, grade_analysis, leadVars>>

\* design_grader.grade_design(request)
CallGradeDesign ==
    /\ via = "grade" /\ pc = "received" /\ grade_request.kind = "design"
    /\ grade_response' = GradeDesign(grade_request, grade_analysis)
    /\ pc' = "graded"
    /\ UNCHANGED <<via, request, job_skills, invoked, status, response,
                   candidate_skills, skill_score, partial,
                   recencyVars, reasonVars, jdVars, poolVars, sessionVars,
                   anomalyVars, grade_request, grade_analysis, leadVars>>

NextGrade == CallGradeCode \/ CallGradeDesign

GradeSpec == InitGrade /\ [][NextGrade]_vars

\* the request names a content source
HasContent ==
    IF grade_request.kind = "code"
    THEN Truthy(grade_request.repo_url) \/ Truthy(grade_request.code_zip)
            \/ Truthy(grade_request.code_content)
    ELSE Truthy(grade_request.file_url) \/ Truthy(grade_request.design_content)

\* the score before the clamp
RawScore ==
    IF grade_request.kind = "code" THEN CalculateScore(grade_analysis.found).score
    ELSE CalculateDesignScore(grade_analysis.found).score

\* C25: grading always returns a response with ai_score in [0,100]; without a
\* content source the score is 0 and the first reason is an input_error; an
\* analysis that raises gives the score 0 with the reason analysis_error; every
\* other score is the computed score clamped to [0,100].
C25_Grading ==
    pc = "graded" =>
        /\ DOMAIN grade_response = {"ai_score", "reasons", "analysis_summary"}
        /\ Len(grade_response.reasons) > 0 \/ HasContent
        /\ 0 <= grade_response.ai_score /\ grade_response.ai_score <= 1000
        /\ ~HasContent =>
              /\ grade_response.ai_score = 0
              /\ grade_response.reasons[1].category = "input_error"
        /\ HasContent /\ grade_analysis.raises =>
              /\ grade_response.ai_score = 0
              /\ grade_response.reasons[1].category = "analysis_error"
        /\ HasContent /\ ~grade_analysis.raises =>
              /\ RawScore > 1000 => grade_response.ai_score = 1000
              /\ RawScore < 0 => grade_response.ai_score = 0
              /\ RawScore \in 0..1000 => grade_response.ai_score = RawScore
              /\ \A i \in 1..Len(grade_response.reasons) :
                    grade_response.reasons[i].category
                        \notin {"input_error", "analysis_error"}

\* code with every good practice and no fault: 115 points, returned as 100
C25_Witness ==
    /\ pc = "graded" /\ grade_request.kind = "code"
    /\ grade_request.code_content = "x = 1"
    /\ ~grade_analysis.raises
    /\ RawScore = 1150
    /\ grade_response.ai_score = 1000
    /\ Len(grade_response.reasons) = 5

-----------------------------------------------------------------------------
(* ai-lead: the model of LeadScoringService. The coroutines load_model,      *)
(* train_model and score_lead never suspend, so each call is one step. The   *)
(* model is None, an unfitted pipeline or a fitted pipeline; the file at     *)
(* model_path is absent, a saved pipeline or unreadable.                     *)

Unfitted == "unfitted pipeline"
Fitted == "fitted pipeline"

\* The guard left out.
ModelUnsetNever(m) == FALSE

\* if self.model is None
ModelUnset(m) == m = None

\* train_model(): fit or joblib.dump may raise after self.model is assigned
TrainModel(outcome) ==
    CASE outcome = "trained" ->
            [model |-> Fitted, model_file |-> "saved", outcome |-> "completed"]
      [] outcome = "fit raises" ->
            [model |-> Unfitted, model_file |-> model_file, outcome |-> "raised"]
      [] outcome = "dump raises" ->
            [model |-> Fitted, model_file |-> model_file, outcome |-> "raised"]

TrainOutcomes == {"trained", "fit raises", "dump raises"}

\* load_model(): joblib.load raises on a file it cannot read
LoadModel(outcome) ==
    IF model_file = "saved"
    THEN [model |-> Fitted, model_file |-> model_file, outcome |-> "completed"]
    ELSE IF model_file = "unreadable"
    THEN [model |-> model, model_file |-> model_file, outcome |-> "raised"]
    ELSE TrainModel(outcome)

\* score_lead(request): predict_proba raises on a pipeline that was not fitted
ScoreLead(m) ==
    IF ModelUnset(m) THEN "Model not loaded"
    ELSE IF m = Unfitted THEN "scoring raised"
    ELSE "scored"

Logged(call, after, outcome) ==
    Append(lead_log, [call |-> call, model_before |-> model,
                      model_after |-> after, outcome |-> outcome])

InitLead ==
    /\ via = "lead"
    /\ pc = "serving"
    /\ request = NoRequest
    /\ job_skills = None
    /\ invoked = FALSE
    /\ status = 0
    /\ response = None
    /\ candidate_skills = <<>>
    /\ skill_score = None
    /\ partial = None
    /\ model = None
    /\ model_file \in {"absent", "saved", "unreadable"}
    /\ lead_log = <<>>
    /\ NoRecency /\ NoReasons /\ NoParse /\ NoPool /\ NoSession /\ NoAnomaly /\ NoGrade

LeadFrame ==
    UNCHANGED <<via, pc, request, job_skills, invoked, status, response,
                candidate_skills, skill_score, partial,
                recencyVars, reasonVars, jdVars, poolVars, sessionVars,
                anomalyVars, gradeVars>>

\* await scoring_service.load_model()
CallLoadModel ==
    /\ via = "lead" /\ Len(lead_log) < MaxLeadCalls
    /\ \E outcome \in TrainOutcomes :
          LET result == LoadModel(outcome) IN
          /\ model' = result.model
          /\ model_file' = result.model_file
          /\ lead_log' = Logged("load_model", result.model, result.outcome)
    /\ LeadFrame

\* await service.train_model()
CallTrainModel ==
    /\ via = "lead" /\ Len(lead_log) < MaxLeadCalls
    /\ \E outcome \in TrainOutcomes :
          LET result == TrainModel(outcome) IN
          /\ model' = result.model
          /\ model_file' = result.model_file
          /\ lead_log' = Logged("train_model", result.model, result.outcome)
    /\ LeadFrame

\* await scoring_service.score_lead(request)
CallScoreLead ==
    /\ via = "lead" /\ Len(lead_log) < MaxLeadCalls
    /\ lead_log' = Logged("score_lead", model, ScoreLead(model))
    /\ UNCHANGED <<model, model_file>>
    /\ LeadFrame

NextLead == CallLoadModel \/ CallTrainModel \/ CallScoreLead

LeadSpec == InitLead /\ [][NextLead]_vars

\* C26: score_lead raises "Model not loaded" exactly when the model is unset
\* and returns no score then; a model that is set stays set; after a
\* load_model that completed, from the file or by training, the model is set
\* and every later score_lead gets past the check and goes on to scoring.
C26_ModelLifecycle ==
    via = "lead" =>
        /\ \A k \in 1..Len(lead_log) :
              /\ lead_log[k].call = "score_lead" =>
                    /\ lead_log[k].model_before = None
                          <=> lead_log[k].outcome = "Model not loaded"
                    /\ lead_log[k].model_after = lead_log[k].model_before
              /\ lead_log[k].model_before # None => lead_log[k].model_after # None
              /\ lead_log[k].call = "load_model" /\ lead_log[k].outcome = "completed" =>
                    /\ lead_log[k].model_after = Fitted
                    /\ \A j \in (k + 1)..Len(lead_log) :
                          /\ lead_log[j].model_before # None
                          /\ lead_log[j].call = "score_lead" =>
                                lead_log[j].outcome \in {"scored", "scoring raised"}
              /\ k > 1 => lead_log[k].model_before = lead_log[k - 1].model_after
        /\ Len(lead_log) > 0 => model = lead_log[Len(lead_log)].model_after
        /\ Len(lead_log) = 0 => model = None

\* a call before the model is loaded, a load that trains, two calls after it
C26_Witness ==
    /\ via = "lead" /\ Len(lead_log) = 4
    /\ lead_log[1].call = "score_lead" /\ lead_log[1].outcome = "Model not loaded"
    /\ lead_log[2].call = "load_model" /\ lead_log[2].outcome = "completed"
    /\ lead_log[2].model_before = None
    /\ lead_log[3].call = "score_lead" /\ lead_log[3].outcome = "scored"
    /\ lead_log[4].call = "score_lead" /\ lead_log[4].outcome = "scored"
    /\ model_file = "saved" /\ model = Fitted

-----------------------------------------------------------------------------
(* Properties of the parser specification (JDSpec) *)

Parsed == pc = "parsed" /\ ~parsed.raised

\* the technical terms with a whole-word match in the lower-cased description
FoundTerms ==
    LET text == Lower(jd_text) IN
    {technical_skills[i] : i \in {j \in 1..Len(technical_skills) :
                                     FindAll(text, technical_skills[j]) > 0}}

\* C16: parse_jd returns at most 20 skills, every weight is in [0,1], and the
\* skills are ordered by weight, non-increasing.
C16_SkillsBounded ==
    Parsed =>
        /\ Len(parsed.skills) <= 20
        /\ \A i \in 1..Len(parsed.skills) :
              parsed.skills[i].weight >= 0 /\ parsed.skills[i].weight <= 100
        /\ \A i \in 1..(Len(parsed.skills) - 1) :
              parsed.skills[i].weight >= parsed.skills[i + 1].weight

\* more than 20 terms are found and 20 are returned, the heaviest first
C16_Witness ==
    /\ Parsed
    /\ Cardinality(FoundTerms) > 20
    /\ Len(parsed.skills) = 20
    /\ parsed.skills[1].weight > parsed.skills[20].weight

\* the sum of the whole-word match counts of the trigger phrases of a level
TriggerTotal(level) ==
    LET triggers == seniority_keywords[level]
        text == Lower(jd_text)
    IN  SumSeq([i \in 1..Len(triggers) |-> FindAll(text, triggers[i])], 1)

\* C17: the seniority is the level with the greatest total of whole-word
\* matches of its trigger phrases, the first such level in the order junior,
\* mid, senior, lead, principal on a tie (one junior and one senior trigger
\* give junior), and mid when every total is 0.
C17_Seniority ==
    Parsed =>
        \A total \in {<<TriggerTotal("junior"), TriggerTotal("mid"), TriggerTotal("senior"),
                        TriggerTotal("lead"), TriggerTotal("principal")>>} :
            LET order == <<"junior", "mid", "senior", "lead", "principal">>
            IN  /\ (\A i \in 1..5 : total[i] = 0) => parsed.seniority_hint = "mid"
                /\ (\E i \in 1..5 : total[i] > 0) =>
                      \E i \in 1..5 :
                          /\ parsed.seniority_hint = order[i]
                          /\ \A j \in 1..5 : total[j] <= total[i]
                          /\ \A j \in 1..(i - 1) : total[j] < total[i]
                /\ total = <<1, 0, 1, 0, 0>> => parsed.seniority_hint = "junior"

\* one junior trigger and one senior trigger
C17_Witness ==
    /\ Parsed
    /\ jd_text = seg_senior_python \o <<" ">> \o seg_junior_r
    /\ TriggerTotal("junior") = 1 /\ TriggerTotal("senior") = 1
    /\ parsed.seniority_hint = "junior"

\* C18: parse_jd never raises, the empty string included; a description with
\* no vocabulary term and no seniority keyword gives no skills, no soft skills
\* and seniority mid.
C18_Total ==
    pc = "parsed" =>
        /\ ~parsed.raised
        /\ (/\ FoundTerms = {}
            /\ LET text == Lower(jd_text)
               IN  \A i \in 1..Len(soft_skills) : FindAll(text, soft_skills[i]) = 0
            /\ \A i \in 1..Len(SeniorityLevel) : TriggerTotal(SeniorityLevel[i]) = 0)
           => /\ parsed.skills = <<>>
              /\ parsed.soft_skills = <<>>
              /\ parsed.seniority_hint = "mid"

\* the empty description
C18_Witness ==
    /\ pc = "parsed"
    /\ jd_text = <<>>
    /\ parsed = [raised |-> FALSE, skills |-> <<>>, soft_skills |-> <<>>,
                 seniority_hint |-> "mid"]

\* min(0.1 + 0.1*f, 1.0), in hundredths
RuleBaseWeight(f) == IF 10 + 10 * f > 100 THEN 100 ELSE 10 + 10 * f

\* min(1.5 * w, 1.0) for a weight w in hundredths
RuleBoost(w) == IF 3 * w > 200 THEN 100 ELSE (3 * w) \div 2

\* the description contains "requirements", "required" or "must have"
HasBoostPhrase ==
    \E phrase \in {s_requirements, s_required, s_must_have} :
        IsSubstring(phrase, Lower(jd_text))

\* C19: a technical term with f whole-word matches is dropped when f = 0 and
\* has base weight min(0.1 + 0.1*f, 1.0) otherwise; in a description without
\* "requirements", "required" and "must have" the reported weight is the base
\* weight.
C19_BaseWeight ==
    Parsed =>
        LET text == Lower(jd_text)
            found == FoundTerms
            reported == {parsed.skills[k].name : k \in 1..Len(parsed.skills)}
            plain == ~HasBoostPhrase
        IN  /\ reported \subseteq found
            /\ Cardinality(found) <= 20 => found = reported
            /\ Cardinality(reported) = Len(parsed.skills)
            /\ \A k \in 1..Len(parsed.skills) :
                  LET base == RuleBaseWeight(FindAll(text, parsed.skills[k].name))
                  IN  /\ parsed.skills[k].weight \in {base, RuleBoost(base)}
                      /\ plain => parsed.skills[k].weight = base

\* python ten times without a boost phrase: the base weight is capped at 1.0
C19_Witness ==
    /\ Parsed
    /\ ~HasBoostPhrase
    /\ FindAll(Lower(jd_text), s_python) = 10
    /\ parsed.skills = <<[name |-> s_python, weight |-> 100]>>

\* the boost window: the description from the first "requirements" on, the
\* whole description when the word is absent
BoostWindow ==
    LET text == Lower(jd_text) IN
    IF IsSubstring(s_requirements, text)
    THEN SubSeq(text, Find(text, s_requirements) + 1, Len(text))
    ELSE text

\* C20: in a description with "requirements", "required" or "must have", the
\* weight of a found term is multiplied by 1.5 (capped at 1.0) if and only if
\* the term occurs in the boost window; a term found only before the first
\* "requirements" keeps its base weight, and every found term is boosted when
\* "requirements" is absent.
C20_SectionBoost ==
    Parsed /\ HasBoostPhrase =>
        LET text == Lower(jd_text)
            window == BoostWindow
        IN  \A k \in 1..Len(parsed.skills) :
                LET term == parsed.skills[k].name
                    base == RuleBaseWeight(FindAll(text, term))
                IN  parsed.skills[k].weight =
                        IF FindAll(window, term) > 0 THEN RuleBoost(base) ELSE base

\* C21: parsing is deterministic: the skills sequence (with the order of the
\* equal-weight skills and the choice of the twenty that are kept) and the
\* soft_skills sequence are the same under every iteration order of the
\* vocabulary sets.
C21_Deterministic ==
    Parsed =>
        \A order \in {"forward", "reverse"} :
            \A other \in {ParseJd(jd_text, order)} :
                /\ other.skills = parsed.skills
                /\ other.soft_skills = parsed.soft_skills

-----------------------------------------------------------------------------
(* Properties of the match specification (Spec) *)

Finished == pc \in {"returned", "raised", "rejected"}

\* every skill level of every candidate of the request lies in [0, 5]
LevelsInRange ==
    \A i \in 1..Len(request.candidates) :
        \A k \in 1..Len(request.candidates[i].skills) :
            /\ 0 <= request.candidates[i].skills[k].level
            /\ request.candidates[i].skills[k].level <= 50

\* the required-skill list the ranker works with
Required == IF job_skills = None THEN DefaultJobSkills ELSE job_skills

\* SumDen(i) times the weighted sum of candidate i, the weights taken as raw
\* multipliers (eval_score is thousandths, the weights are tenths)
SumNum(i) ==
    LET c == request.candidates[i]
        skill == CalculateSkillScore(c.skills, Required)
        recency == CalculateRecencyScore(c.recent_projects)
        eval == Norm([num |-> c.eval_score, den |-> 1000])
    IN  skill.num * request.weights.skill * eval.den * recency.den
        + eval.num * request.weights.eval * skill.den * recency.den
        + recency.num * request.weights.recency * skill.den * eval.den

SumDen(i) ==
    LET c == request.candidates[i] IN
    10 * CalculateSkillScore(c.skills, Required).den
       * Norm([num |-> c.eval_score, den |-> 1000]).den
       * CalculateRecencyScore(c.recent_projects).den

\* C1: match_candidates returns a MatchResponse without raising for every
\* well-typed request (any candidates with levels in [0,5] and eval_score in
\* [0,100], any required-skill list, weights in [0,1] each, top_k in [1,100]);
\* the empty candidate list yields total_candidates = 0 and matches = [].
C1_NeverRaises ==
    (via = "service" /\ pc # "received" /\ LevelsInRange) =>
        /\ pc = "returned"
        /\ (Len(request.candidates) = 0 =>
                response.total_candidates = 0 /\ response.matches = <<>>)

\* C2: every Match of a response has its four scores in [0,100], and a
\* candidate whose weighted sum exceeds 100 is returned with score = 100
\* (the score is clamped after rounding).
C2_ScoresClamped ==
    (via = "service" /\ pc # "received" /\ LevelsInRange) =>
        /\ pc = "returned"
        /\ \A k \in 1..Len(response.matches) :
              LET m == response.matches[k] IN
              /\ \A f \in {m.score, m.skill_score, m.eval_score, m.recency_score} :
                    0 <= f /\ f <= 10000
              /\ SumNum(m.student_id) > 100 * SumDen(m.student_id) => m.score = 10000

\* C3: the matches of a response are ordered by score descending, and two
\* matches of equal score are in the order of their candidates in the input.
C3_SortedStable ==
    pc = "returned" =>
        \A a, b \in 1..Len(response.matches) :
            a < b =>
                \/ response.matches[a].score > response.matches[b].score
                \/ /\ response.matches[a].score = response.matches[b].score
                   /\ response.matches[a].student_id < response.matches[b].student_id

\* a response in which the sort moved a candidate forward and left a tie in place
C3_Witness ==
    /\ pc = "returned"
    /\ \E a, b \in 1..Len(response.matches) :
          a < b /\ response.matches[a].score = response.matches[b].score
    /\ \E a, b \in 1..Len(response.matches) :
          a < b /\ response.matches[a].student_id > response.matches[b].student_id

\* C4: len(matches) = min(top_k, total_candidates), and total_candidates is the
\* number of candidates of the request.
C4_Length ==
    pc = "returned" =>
        /\ response.total_candidates = Len(request.candidates)
        /\ Len(response.matches) =
              (IF request.top_k < response.total_candidates
               THEN request.top_k ELSE response.total_candidates)

\* a response that was truncated to top_k, and one that was not
C4_Witness ==
    /\ pc = "returned"
    /\ request.top_k < Len(request.candidates)
    /\ Len(response.matches) = request.top_k

\* C8: a request over HTTP in which some skill level is outside [0,5] is
\* rejected at the boundary, and the ranker is never invoked with it.
C8_LevelRejected ==
    (via = "http" /\ ~LevelsInRange) =>
        /\ ~invoked
        /\ pc \in {"received", "rejected"}

\* C9: a request over HTTP with a candidate eval_score outside [0,100], a top_k
\* outside [1,100] or a weight component outside [0,1] is answered with a
\* validation error (422) and never reaches the ranker.
C9_Rejected ==
    (/\ via = "http"
     /\ pc # "received"
     /\ \/ \E i \in 1..Len(request.candidates) :
              request.candidates[i].eval_score < 0
              \/ request.candidates[i].eval_score > 100000
        \/ request.top_k < 1 \/ request.top_k > 100
        \/ \E x \in {request.weights.skill, request.weights.eval,
                     request.weights.recency} : x < 0 \/ x > 10)
    => (pc = "rejected" /\ status = 422 /\ ~invoked /\ response = None)

\* a rejected request whose only fault is an eval_score above 100
C9_Witness ==
    /\ via = "http" /\ pc = "rejected" /\ status = 422
    /\ \E i \in 1..Len(request.candidates) : request.candidates[i].eval_score > 100000
    /\ request.top_k \in 1..100
    /\ \A x \in {request.weights.skill, request.weights.eval,
                 request.weights.recency} : 0 <= x /\ x <= 10

\* the request of the end-to-end scenario: one candidate {python: 5.0},
\* eval_score 100, no projects; required [python]; default weights
IsExample ==
    /\ via = "service"
    /\ Len(request.candidates) = 1
    /\ request.candidates[1].skills = <<Entry(s_python, 50)>>
    /\ request.candidates[1].eval_score = 100000
    /\ request.candidates[1].recent_projects = <<>>
    /\ job_skills = <<s_python>>
    /\ request.weights = W(6, 3, 1)

\* C10: when the weighted sum skill*w.skill + eval*w.eval + recency*w.recency
\* (raw multipliers, no normalisation) lies in [0,100], the score of the match
\* is that sum rounded to 2 decimals; the end-to-end scenario gives
\* skill_score 100, recency_score 50 and score 95.0.
C10_WeightedSum ==
    pc = "returned" =>
        /\ \A k \in 1..Len(response.matches) :
              LET m == response.matches[k]
                  num == SumNum(m.student_id)
                  den == SumDen(m.student_id)
                  diff == 100 * num - m.score * den
              IN  (0 <= num /\ num <= 100 * den) =>
                      (2 * diff <= den /\ -2 * diff <= den)
        /\ IsExample =>
              /\ Len(response.matches) = 1
              /\ response.matches[1].skill_score = 10000
              /\ response.matches[1].eval_score = 10000
              /\ response.matches[1].recency_score = 5000
              /\ response.matches[1].score = 9500

\* the end-to-end scenario, answered
C10_Witness ==
    /\ pc = "returned" /\ IsExample
    /\ response.matches[1].score = 9500

\* C12 as claimed: the eval_score of a Match equals the eval_score of its
\* candidate, unchanged, for every eval_score in [0,100].
C12_EvalUnchanged ==
    pc = "returned" =>
        \A k \in 1..Len(response.matches) :
            10 * response.matches[k].eval_score =
                request.candidates[response.matches[k].student_id].eval_score

\* C12, amended: the eval_score of a Match is the eval_score of its candidate
\* rounded to 2 decimals, hence unchanged when it has at most 2 decimals.
C12_EvalRounded ==
    pc = "returned" =>
        \A k \in 1..Len(response.matches) :
            LET m == response.matches[k]
                e == request.candidates[m.student_id].eval_score
            IN  /\ e - 10 * m.eval_score <= 5
                /\ 10 * m.eval_score - e <= 5
                /\ (e % 10 = 0 => 10 * m.eval_score = e)

\* a match of a candidate whose eval_score has a third decimal
C12_Witness ==
    /\ pc = "returned"
    /\ \E k \in 1..Len(response.matches) :
          LET m == response.matches[k]
              e == request.candidates[m.student_id].eval_score
          IN  e % 10 # 0 /\ 10 * m.eval_score # e

\* C27: a request over HTTP is scored against the default list [python,
\* machine learning, sql, communication]; the job_id of the request is echoed
\* and has no other effect: the same request under any other job_id gets the
\* same matches.
C27_DefaultSkills ==
    pc = "returned" /\ via = "http" =>
        /\ job_skills = None
        /\ response.job_id = request.job_id
        /\ \A k \in 1..Len(response.matches) :
              response.matches[k] =
                  EvaluateCandidate(request.candidates[response.matches[k].student_id],
                      <<s_python, s_machine_learning, s_sql, s_communication>>,
                      request.weights).match
        /\ \A id \in JobIds :
              \A other \in {MatchCandidates([request EXCEPT !.job_id = id], None)} :
                  /\ ~other.raised
                  /\ other.matches = response.matches
                  /\ other.total_candidates = response.total_candidates
                  /\ other.job_id = id

\* a request for job-2 whose candidate has all four default skills
C27_Witness ==
    /\ pc = "returned" /\ via = "http"
    /\ request.job_id = "job-2" /\ response.job_id = "job-2"
    /\ Len(response.matches) = 1
    /\ response.matches[1].skill_score = 10000
    /\ Len(response.matches[1].reasons.top_terms) = 4

-----------------------------------------------------------------------------
(* Properties of the pool specification (PoolSpec) *)

\* what the sequential loop of match_candidates returns for the request
Sequential == MatchCandidates(request, job_skills)

Scores(ms) == [k \in 1..Len(ms) |-> ms[k].score]

\* the appended matches put back in the order of the candidate list
InCandidateOrder(ms) ==
    [k \in 1..Len(ms) |->
        CHOOSE m \in Range(ms) :
            Cardinality({x \in Range(ms) : x.student_id < m.student_id}) = k - 1]

-----------------------------------------------------------------------------
(* Properties of the skill specification (SkillSpec) *)

\* the value the skill-score rule gives one required skill r (lower-cased), in
\* hundredths of a level: the level on a key match, else 0.8 of the level of
\* the first alias present, else 0.6 of the level of the first skill that
\* contains r or is contained in r, else 0
RuleContribution(r, cs) ==
    IF HasKey(cs, r) THEN 10 * Get(cs, r)
    ELSE IF \E i \in 1..Len(AliasesOf(r)) : HasKey(cs, AliasesOf(r)[i])
    THEN 8 * Get(cs, AliasesOf(r)[Least({i \in 1..Len(AliasesOf(r)) :
                                            HasKey(cs, AliasesOf(r)[i])})])
    ELSE IF \E i \in 1..Len(cs) :
                IsSubstring(r, cs[i].name) \/ IsSubstring(cs[i].name, r)
    THEN 6 * cs[Least({i \in 1..Len(cs) :
                IsSubstring(r, cs[i].name) \/ IsSubstring(cs[i].name, r)})].level
    ELSE 0

\* C5: for a non-empty skill map and a non-empty required list, skill_score =
\* 100 * (sum of the contributions) / (5 * number of distinct lower-cased
\* required skills), also when no skill of the candidate is a direct key match.
C5_SkillFormula ==
    (pc = "scored" /\ Len(candidate_skills) > 0 /\ Len(job_skills) > 0) =>
        LET rs == LowerSet(job_skills)
            cs == LowerKeys(candidate_skills)
            total == SumOver(rs, [r \in rs |-> RuleContribution(r, cs)])
        IN  skill_score.num * (5 * Cardinality(rs)) = total * skill_score.den

\* C6: for a required skill that is no key of the skill map and has an alias
\* list of which some alias is present, the partial match is 0.8 times the
\* level of the first alias, in declared order, that is present, whatever the
\* levels of the later aliases and whatever the substring fallback would give.
C6_FirstAlias ==
    pc = "partial" =>
        LET cs == LowerKeys(candidate_skills)
            aliases == AliasesOf(partial.job_skill)
        IN  \A i \in 1..Len(aliases) :
                (HasKey(cs, aliases[i]) /\ \A j \in 1..(i - 1) : ~HasKey(cs, aliases[j]))
                    => partial.score = 8 * Get(cs, aliases[i])

\* a partial match where a later alias has a higher level than the first one present
C6_Witness ==
    /\ pc = "partial"
    /\ LET cs == LowerKeys(candidate_skills)
           aliases == AliasesOf(partial.job_skill)
       IN  \E i, j \in 1..Len(aliases) :
              /\ i < j /\ HasKey(cs, aliases[i]) /\ HasKey(cs, aliases[j])
              /\ Get(cs, aliases[i]) < Get(cs, aliases[j])
              /\ partial.score = 8 * Get(cs, aliases[i])

\* every level of the skill map lies in [0, 5]
SkillLevelsInRange ==
    \A k \in 1..Len(candidate_skills) :
        0 <= candidate_skills[k].level /\ candidate_skills[k].level <= 50

\* C7: with skill levels in [0,5], skill_score is in [0,100], and it is 0 when
\* the required-skill list is empty.
C7_SkillRange ==
    (pc = "scored" /\ SkillLevelsInRange) =>
        /\ 0 <= skill_score.num
        /\ skill_score.num <= 100 * skill_score.den
        /\ (Len(job_skills) = 0 => skill_score.num = 0)

\* a positive score from levels in range for two required skills, one of them
\* not a key of the skill map
C7_Witness ==
    /\ pc = "scored" /\ SkillLevelsInRange
    /\ Len(job_skills) = 2
    /\ \E k \in 1..Len(job_skills) :
          ~HasKey(LowerKeys(candidate_skills), Lower(job_skills[k]))
    /\ skill_score.num > 0

\* the other letter case of a name that has one among the inputs
OtherCase(name) ==
    IF name = s_python THEN s_Python
    ELSE IF name = s_Python THEN s_python
    ELSE name

\* required lists to compare job_skills with: the lists of the input set, the
\* list reversed, with its first entry repeated at the end, and with the
\* letter case of its names changed
RequiredVariants ==
    RequiredLists \cup
    {Reverse(job_skills),
     IF Len(job_skills) = 0 THEN job_skills ELSE Append(job_skills, job_skills[1]),
     [i \in 1..Len(job_skills) |-> OtherCase(job_skills[i])]}

\* C30: skill_score is the same for two required lists with the same set of
\* lower-cased names (reordered, with repeated entries, in another letter
\* case), and when it is computed its maximum counts each distinct
\* lower-cased name once: 5 per name.
C30_RequiredAsSet ==
    pc = "scored" =>
        /\ \A other \in RequiredVariants :
              LowerSet(other) = LowerSet(job_skills)
                  => CalculateSkillScore(candidate_skills, other) = skill_score
        /\ LET rs == LowerSet(job_skills)
               cs == LowerKeys(candidate_skills)
               total == SumOver(rs, [r \in rs |-> RuleContribution(r, cs)])
           IN  (\E r \in rs : HasKey(cs, r)) =>
                   skill_score.num * (5 * Cardinality(rs)) = total * skill_score.den

\* python is required twice, in two letter cases: the maximum is 5 and
\* not 10
C30_Witness ==
    /\ pc = "scored"
    /\ job_skills = <<s_python, s_Python>>
    /\ candidate_skills = <<Entry(s_python, 50), Entry(s_mysql, 20)>>
    /\ skill_score = [num |-> 100, den |-> 1]
    /\ CalculateSkillScore(candidate_skills, <<s_Python>>) = skill_score

====
